---- MODULE Spec2Model ----
(***************************************************************************)
(* Model of the RxJS-style Pipe engine of dvirusJS (class Pipe, its        *)
(* operator factories and its terminal methods).                           *)
(*                                                                         *)
(* JavaScript values are records with a field t (the kind of value):       *)
(*   numbers, booleans, strings, undefined : [t, n, s]                     *)
(*   Error objects                         : [t |-> "error", n, s]         *)
(*   PipeResult objects                    : [t |-> "object", value,       *)
(*                                            stopped, error, metadata]    *)
(*   metadata objects                      : [t |-> "object", m]           *)
(*   promises                              : [t |-> "promise", n, s,       *)
(*                                            settled]                     *)
(* The debugName field of a PipeResult only feeds the debug log and is     *)
(* left out, as is the console output.                                      *)
(*                                                                         *)
(* The specifications have their own variables (those of the others stay  *)
(* at their idle values):                                                  *)
(*   Spec        one Pipe that is built and then consumed once;            *)
(*   BranchSpec  several Pipe objects branched from one another with       *)
(*               pipe(), executed repeatedly;                              *)
(*   ManagerSpec a chain of PipeManagerImpl method calls;                  *)
(*   ObjectsSpec the objects of either class (BranchSpec or ManagerSpec);  *)
(*   ComposeSpec one Pipe with one composed operator;                      *)
(*   AsyncSpec   one call of pipeAsync;                                    *)
(*   ManagerAsyncSpec  PipeManagerImpl chains with mapAsync and tapAsync.  *)
(***************************************************************************)
EXTENDS Integers, Sequences, FiniteSets, TLC

\* Longest operator chain that is built.
MaxOps == 2
\* Most Pipe objects alive at once, and most executions, in BranchSpec.
MaxPipes == 3
MaxRuns == 2
\* Longest chain of PipeManagerImpl method calls.
MaxCalls == 2

\* Spec: one Pipe
VARIABLES
    config,      \* this.config.errorHandling of the pipe
    context,     \* this.context of the pipe
    operators,   \* this.operators: a sequence of operator descriptors
    counters,    \* the closure counter (taken / skipped) of each operator instance
    pc,          \* "built": the pipe can grow or be consumed; "done": consumed
    method,      \* the terminal method that consumed the pipe
    result,      \* what execute() returned inside the terminal method
    ret,         \* what the terminal method itself returned, resolved or raised
    calls,       \* the callbacks subscribe() called, in order
    effects,     \* the values the tap effects have seen, in order
    trace        \* one record per iteration of the loop of execute()

pipeVars == <<config, context, operators, counters, pc, method, result, ret,
              calls, effects, trace>>

\* BranchSpec: several Pipe objects
VARIABLES
    pipes,       \* the Pipe objects created so far: [context, operators, config]
    closures,    \* the closure counter of every operator instance, by instance id
    runs,        \* one record per subscribe() call, in order
    births       \* for every Pipe object, the pipe() call that returned it

branchVars == <<pipes, closures, runs, births>>

\* ManagerSpec: a chain of PipeManagerImpl method calls
VARIABLES
    mgr,         \* this._context of the manager the last call returned
    recv,        \* this._context of the receiver of the last call, after the call
    last,        \* the last call: method, arguments, and the callbacks it invoked
    depth,       \* the number of calls made
    origin       \* how the first manager was made: createPipe or the constructor

managerVars == <<mgr, recv, last, depth, origin>>

\* AsyncSpec: one call of pipeAsync(value, ...steps)
VARIABLES
    asyncValue,  \* the value argument
    steps,       \* the steps: [array, fns], a function or an array of functions
    asyncResult, \* the local variable result
    ip,          \* the number of steps whose functions have been called
    tasks,       \* the promises the functions of step ip returned, in array order
    promise,     \* the promise that pipeAsync returned: [state, val]
    events       \* the calls of the functions (called, threw) and the settlements
                 \* of their promises (fulfilled, rejected), in order

asyncVars == <<asyncValue, steps, asyncResult, ip, tasks, promise, events>>

vars == <<pipeVars, branchVars, managerVars, asyncVars>>

----------------------------------------------------------------------------
\* JavaScript values

Num(n) == [t |-> "number", n |-> n, s |-> ""]
Bool(b) == [t |-> "boolean", n |-> IF b THEN 1 ELSE 0, s |-> ""]
Str(s) == [t |-> "string", n |-> 0, s |-> s]
Undefined == [t |-> "undefined", n |-> 0, s |-> ""]
\* new Error(message)
Err(message) == [t |-> "error", n |-> 0, s |-> message]
\* a metadata object with the entries of the function m
Meta(m) == [t |-> "object", m |-> m]
\* the promise an async function returns, which resolves with v
Promise(v) == [t |-> "promise", n |-> 0, s |-> "", settled |-> v]
NaN == [t |-> "number", n |-> 0, s |-> "NaN"]
\* the array [items[1], ..., items[n]]
Arr(items) == [t |-> "array", items |-> items]

\* x is a number other than NaN
IsNumber(x) == x.t = "number" /\ x.s = ""

\* obj.key: undefined when obj has no such property
Get(obj, key) == IF key \in DOMAIN obj THEN obj[key] ELSE Undefined

\* ToBoolean: what `if (x)`, `x && ...` and `!x` test
Truthy(x) ==
    CASE x.t = "number" -> x.n # 0
      [] x.t = "boolean" -> x.n = 1
      [] x.t = "string" -> x.s # ""
      [] x.t = "undefined" -> FALSE
      [] OTHER -> TRUE

\* typeof x
TypeOf(x) == IF x.t \in {"error", "promise", "array"} THEN "object" ELSE x.t

\* String(x); an array gives its elements joined by commas, an undefined
\* element the empty string
RECURSIVE String(_)
RECURSIVE Join(_)
Join(items) ==
    IF Len(items) = 0 THEN ""
    ELSE (IF items[1].t = "undefined" THEN "" ELSE String(items[1]))
         \o (IF Len(items) = 1 THEN "" ELSE "," \o Join(Tail(items)))
String(x) ==
    CASE x.t = "string" -> x.s
      [] x.t = "number" -> IF IsNumber(x) THEN ToString(x.n) ELSE "NaN"
      [] x.t = "boolean" -> IF x.n = 1 THEN "true" ELSE "false"
      [] x.t = "undefined" -> "undefined"
      [] x.t = "error" -> "Error: " \o x.s
      [] x.t = "array" -> Join(x.items)
      [] x.t = "promise" -> "[object Promise]"
      [] OTHER -> "[object Object]"

\* Number(s) of a string: the empty string is 0, a decimal numeral its
\* number, any other string NaN
Numeral == "0123456789"
IsDigit(c) == \E d \in 0..9 : SubSeq(Numeral, d + 1, d + 1) = c
DigitOf(c) == CHOOSE d \in 0..9 : SubSeq(Numeral, d + 1, d + 1) = c
RECURSIVE Decimal(_, _)
Decimal(s, acc) ==
    IF Len(s) = 0 THEN acc
    ELSE Decimal(SubSeq(s, 2, Len(s)), acc * 10 + DigitOf(SubSeq(s, 1, 1)))
StringToNumber(s) ==
    IF Len(s) = 0 THEN Num(0)
    ELSE LET neg == SubSeq(s, 1, 1) = "-"
             digits == IF neg THEN SubSeq(s, 2, Len(s)) ELSE s
         IN  IF Len(digits) > 0 /\ \A i \in 1..Len(digits) : IsDigit(SubSeq(digits, i, i))
             THEN Num((IF neg THEN -1 ELSE 1) * Decimal(digits, 0))
             ELSE NaN

\* ToNumber(x), for the operands of * and >
ToNumber(x) ==
    CASE x.t = "number" -> x
      [] x.t = "boolean" -> Num(x.n)
      [] x.t = "undefined" -> NaN
      [] OTHER -> StringToNumber(String(x))

\* a + b, a * k and a > k of numbers
Sum(a, b) == IF IsNumber(a) /\ IsNumber(b) THEN Num(a.n + b.n) ELSE NaN
Product(a, k) == IF IsNumber(a) THEN Num(a.n * k) ELSE NaN
Exceeds(a, k) == Bool(IsNumber(a) /\ a.n > k)

\* x + y: a string when an operand is a string or an object (an array, an
\* error), else the sum of the numbers
Add(x, y) ==
    IF x.t \in {"number", "boolean", "undefined"} /\ y.t \in {"number", "boolean", "undefined"}
    THEN Sum(ToNumber(x), ToNumber(y))
    ELSE Str(String(x) \o String(y))

\* x + k, x * k and x > k for a number k
Plus(x, k) == Add(x, Num(k))
Times(x, k) == Product(ToNumber(x), k)
Greater(x, k) == Exceeds(ToNumber(x), k)

\* error instanceof Error ? error : new Error(String(error))
ToError(x) == IF x.t = "error" THEN x ELSE Err(String(x))

----------------------------------------------------------------------------
\* Utility functions

isPipeResult(value) ==
    Truthy(value) /\ TypeOf(value) = "object" /\ "value" \in DOMAIN value

\* options[k], or dflt when options has no key k
Opt(options, k, dflt) == IF k \in DOMAIN options THEN options[k] ELSE dflt

\* an options object without keys
NoOptions == << >>

\* { value, ...options }: a key of options, value included, overrides
pipeResult(value, options) ==
    [t |-> "object",
     value |-> Opt(options, "value", value),
     stopped |-> Opt(options, "stopped", Undefined),
     error |-> Opt(options, "error", Undefined),
     metadata |-> Opt(options, "metadata", Undefined)]

stop(value) == pipeResult(value, [stopped |-> Bool(TRUE)])

error(value, e) == pipeResult(value, [error |-> ToError(e)])

metadata(value, md) == pipeResult(value, [metadata |-> md])

----------------------------------------------------------------------------
\* The functions the caller hands to the operator factories.  A call either
\* returns val or throws val; eff lists the values it logged as a side effect.

Returns(v) == [threw |-> FALSE, val |-> v, eff |-> << >>]
Throws(v) == [threw |-> TRUE, val |-> v, eff |-> << >>]

Call(fn, x) ==
    CASE fn = "inc" -> Returns(Plus(x, 1))                      \* x => x + 1
      [] fn = "dbl" -> Returns(Times(x, 2))                     \* x => x * 2
      [] fn = "throwBoom" -> Throws(Err("boom"))                \* () => { throw new Error("boom") }
      [] fn = "throwStr" -> Throws(Str("oops"))                 \* () => { throw "oops" }
      [] fn = "retErr" -> Returns(error(Plus(x, 1), Str("bad")))  \* x => error(x + 1, "bad")
      [] fn = "retStop" -> Returns(stop(Plus(x, 1)))            \* x => stop(x + 1)
      [] fn = "gt3" -> Returns(Greater(x, 3))                   \* x => x > 3
      [] fn = "gt0" -> Returns(Greater(x, 0))                   \* x => x > 0
      [] fn = "gt3R" -> Returns(pipeResult(Greater(x, 3), NoOptions))  \* x => pipeResult(x > 3)
      [] fn = "log" -> [threw |-> FALSE, val |-> Undefined, eff |-> <<x>>]  \* x => { seen.push(x) }
      [] fn = "retMeta" -> Returns(metadata(x, Meta([k \in {"a"} |-> x])))  \* x => metadata(x, { a: x })
      [] fn = "retStopMeta" ->                                  \* x => pipeResult(x, { stopped: true, metadata: { a: x } })
            Returns(pipeResult(x, [stopped |-> Bool(TRUE), metadata |-> Meta([k \in {"a"} |-> x])]))
      [] fn = "h" -> Returns(Plus(x, 100))                      \* v => v + 100
      [] fn = "pair" -> Returns(Arr(<<x, x>>))                  \* v => [v, v]
      [] fn = "asyncOperator" -> Returns(Promise(Times(x, 2)))  \* async value => { await ...; return value * 2 }

Transforms == {"inc", "dbl", "throwBoom", "throwStr", "retErr", "retStop", "retMeta",
               "retStopMeta"}
Predicates == {"gt3", "gt3R"}
Effects == {"log"}
\* "none": catchError() without a handler
Handlers == {"h", "none"}
\* functions of the caller that are put in the chain as operators, unwrapped
CustomOperators == {"asyncOperator"}

----------------------------------------------------------------------------
\* Operators.  An operator instance is a descriptor [op, fn, count]; applying
\* it to (value, context) with its closure counter at cnt gives
\* [threw, val, eff, cnt]: the PipeResult returned (or the value thrown), the
\* side effects, and the counter afterwards.

Outcome(call, res, cnt) ==
    [threw |-> call.threw, val |-> IF call.threw THEN call.val ELSE res,
     eff |-> call.eff, cnt |-> cnt]

NoCall == Returns(Undefined)

map(transform, value, cnt) ==
    LET call == Call(transform, value)
        res == call.val
    IN  Outcome(call, IF isPipeResult(res) THEN res ELSE pipeResult(res, NoOptions), cnt)

\* filter that lets every value through
MutFilterNeverStops(predicate, value, cnt) ==
    LET call == Call(predicate, value)
    IN  Outcome(call, pipeResult(value, NoOptions), cnt)

filter(predicate, value, cnt) ==
    LET call == Call(predicate, value)
        res == call.val
    IN  Outcome(call,
                IF isPipeResult(res) /\ Truthy(res.value)
                THEN pipeResult(value, NoOptions)
                ELSE stop(value), cnt)

tap(effect, value, cnt) ==
    LET call == Call(effect, value)
        res == call.val
    IN  Outcome(call, IF isPipeResult(res) THEN pipeResult(value, res)
                      ELSE pipeResult(value, NoOptions), cnt)

catchError(handler, value, ctx, cnt) ==
    IF ~Truthy(ctx.error) THEN Outcome(NoCall, pipeResult(value, NoOptions), cnt)
    ELSE IF handler = "none"
    THEN Outcome(NoCall, pipeResult(value, [error |-> Undefined, stopped |-> Bool(FALSE)]), cnt)
    ELSE LET call == Call(handler, value)
             res == call.val
         IN  Outcome(call,
                     IF isPipeResult(res) THEN pipeResult(res.value, res)
                     ELSE pipeResult(res, [error |-> Undefined, stopped |-> Bool(FALSE)]),
                     cnt)

throwError(e, value, cnt) == Outcome(NoCall, error(value, Str(e)), cnt)

retry(value, cnt) == Outcome(NoCall, pipeResult(value, NoOptions), cnt)

\* an operator of the caller: execute() gets whatever the function returns
custom(fn, value, cnt) ==
    LET call == Call(fn, value)
    IN  Outcome(call, call.val, cnt)

take(count, value, cnt) ==
    Outcome(NoCall, IF cnt + 1 <= count THEN pipeResult(value, NoOptions) ELSE stop(value),
            cnt + 1)

skip(count, value, cnt) ==
    Outcome(NoCall, IF cnt + 1 > count THEN pipeResult(value, NoOptions) ELSE stop(value),
            cnt + 1)

\* an operator made by one of the factories other than compose, called with
\* (value, context)
FactoryOperator(o, value, ctx, cnt) ==
    CASE o.op = "map" -> map(o.fn, value, cnt)
      [] o.op = "filter" -> filter(o.fn, value, cnt)
      [] o.op = "tap" -> tap(o.fn, value, cnt)
      [] o.op = "catchError" -> catchError(o.fn, value, ctx, cnt)
      [] o.op = "throwError" -> throwError(o.fn, value, cnt)
      [] o.op = "retry" -> retry(value, cnt)
      [] o.op = "take" -> take(o.count, value, cnt)
      [] o.op = "skip" -> skip(o.count, value, cnt)
      [] o.op = "custom" -> custom(o.fn, value, cnt)

\* operator(val) inside compose: the operator gets no context, and
\* context?.error reads undefined
NoContext == [error |-> Undefined]

\* operators.reduce(...) of compose from operator i on.  st holds acc, the
\* isStopped flag, whether an operator threw (the throw leaves reduce), the
\* closure counters of the operators, the side effects, and the results that
\* the operators returned.  The composed operators are factory operators.
\* one call of the reducer of compose that reaches the operator: r is what
\* operator(val) returned or threw for operator i
Reducer(st, i, r) ==
    [acc |-> IF r.threw THEN r.val
             ELSE pipeResult(Get(r.val, "value"), r.val),
     isStopped |-> ~r.threw /\ Truthy(Get(r.val, "stopped")),
     threw |-> r.threw,
     cnt |-> [st.cnt EXCEPT ![i] = r.cnt],
     eff |-> st.eff \o r.eff,
     results |-> Append(st.results, [threw |-> r.threw, val |-> r.val])]

RECURSIVE Reduce(_, _, _)
Reduce(operators_, i, st) ==
    IF i > Len(operators_) \/ st.threw THEN st
    ELSE Reduce(operators_, i + 1,
                IF st.isStopped
                THEN [st EXCEPT !.acc = pipeResult(Undefined, NoOptions)]
                ELSE Reducer(st, i, FactoryOperator(operators_[i], st.acc.value,
                                                    NoContext, st.cnt[i])))

\* the call of compose(...operators_)(value), the closure counters of the
\* operators being cnt
ComposeRun(operators_, value, cnt) ==
    Reduce(operators_, 1,
           [acc |-> pipeResult(value, NoOptions), isStopped |-> FALSE, threw |-> FALSE,
            cnt |-> cnt, eff |-> << >>, results |-> << >>])

compose(operators_, value, cnt) ==
    LET st == ComposeRun(operators_, value, cnt)
    IN  [threw |-> st.threw, val |-> st.acc, eff |-> st.eff, cnt |-> st.cnt]

\* this.operators[i](currentValue, currentContext)
Operator(o, value, ctx, cnt) ==
    IF o.op = "compose" THEN compose(o.parts, value, cnt)
    ELSE FactoryOperator(o, value, ctx, cnt)

\* The operator instances a caller can put in a chain.
Op(op, fn, count) == [op |-> op, fn |-> fn, count |-> count]

OperatorSet ==
    {Op("map", f, 0) : f \in Transforms}
    \cup {Op("filter", f, 0) : f \in Predicates}
    \cup {Op("tap", f, 0) : f \in Effects}
    \cup {Op("catchError", f, 0) : f \in Handlers}
    \cup {Op("throwError", "fail", 0)}
    \cup {Op("retry", "", 0)}
    \cup {Op("take", "", 1)}
    \cup {Op("skip", "", 1)}
    \cup {Op("custom", f, 0) : f \in CustomOperators}

----------------------------------------------------------------------------
\* class Pipe

\* errorHandling of PipeConfig
Policies == {"stop", "continue", "retry"}

\* The initial values of the pipes that are built.
InitialValues == {Num(1), Num(5)}

\* { ...a, ...b } of two metadata records
Merge(a, b) ==
    [k \in DOMAIN a \cup DOMAIN b |-> IF k \in DOMAIN b THEN b[k] ELSE a[k]]

\* constructor(initialValue, config): this.context
NewContext(initialValue) ==
    [value |-> initialValue, stopped |-> FALSE, error |-> Undefined,
     metadata |-> << >>, index |-> 0, total |-> 0]

\* result.stopped of what the operator returned (undefined when it threw)
ResultStopped(r) == ~r.threw /\ Truthy(Get(r.val, "stopped"))

\* result.error of what the operator returned
ResultError(r) == ~r.threw /\ Truthy(Get(r.val, "error"))

\* if (currentContext.stopped || result.stopped)
Halted(ctx, r) == ctx.stopped \/ ResultStopped(r)

\* CurrentValue without `currentValue = oldValue` in the stopped branch
MutCurrentValueNotRestored(ctx, r, oldValue) ==
    IF r.threw THEN oldValue ELSE Get(r.val, "value")

\* CurrentValue with a throw losing the value, as `return { value: undefined }`
\* in the catch block would
MutCurrentValueLostOnThrow(ctx, r, oldValue) ==
    IF r.threw THEN Undefined
    ELSE IF Halted(ctx, r) THEN oldValue
    ELSE Get(r.val, "value")

\* currentValue after the iteration: result.value, put back to oldValue when
\* the context is stopped; untouched when the operator threw
CurrentValue(ctx, r, oldValue) ==
    IF r.threw THEN oldValue
    ELSE IF Halted(ctx, r) THEN oldValue
    ELSE Get(r.val, "value")

\* Caught with the catch block stopping under every policy
MutCaughtAlwaysStops(ctx, thrown, errorHandling) ==
    [ctx EXCEPT !.error = ToError(thrown), !.stopped = TRUE]

\* the catch block: currentContext after the operator threw
Caught(ctx, thrown, errorHandling) ==
    [ctx EXCEPT !.error = ToError(thrown),
                !.stopped = IF errorHandling = "stop" THEN TRUE ELSE @]

\* Returned with the flags of the result written over those of the context
MutReturnedOverwrites(ctx, r, errorHandling) ==
    [ctx EXCEPT !.stopped = Truthy(Get(r.val, "stopped")),
                !.error = Get(r.val, "error")]

\* the try block: currentContext after the operator returned res
Returned(ctx, r, errorHandling) ==
    IF Halted(ctx, r)
    THEN [ctx EXCEPT !.stopped = TRUE]
    ELSE [ctx EXCEPT
            !.error = IF ResultError(r) THEN r.val.error ELSE @,
            !.stopped = IF ResultError(r) /\ errorHandling = "stop" THEN TRUE ELSE @,
            !.metadata = IF Truthy(Get(r.val, "metadata"))
                         THEN Merge(@, r.val.metadata.m) ELSE @]

\* Whether the loop calls the operator of an iteration that starts with the
\* context in ctx: it always does.
Invokes(ctx) == TRUE

\* One iteration of the loop of execute() after the operator call: r is what
\* the operator o at position i returned or threw, st the running state of
\* the call before the iteration.
Iteration(o, errorHandling, i, st, ctx0, r, ctx1, value1) ==
    [value |-> value1,
     ctx |-> ctx1,
     counters |-> [st.counters EXCEPT ![i] = r.cnt],
     effects |-> st.effects \o r.eff,
     trace |-> Append(st.trace,
                 [op |-> o,
                  input |-> st.value,
                  stoppedBefore |-> st.ctx.stopped,
                  errorBefore |-> st.ctx.error,
                  counterBefore |-> st.counters[i],
                  invoked |-> Invokes(ctx0),
                  threw |-> r.threw,
                  out |-> r.val,
                  counterAfter |-> r.cnt,
                  seen |-> r.eff,
                  value |-> value1,
                  stopped |-> ctx1.stopped,
                  error |-> ctx1.error])]

\* the try/catch of an iteration: currentContext and currentValue after the
\* operator returned or threw r, the context having been ctx0 at the call
TryCatch(o, errorHandling, i, st, ctx0, r) ==
    Iteration(o, errorHandling, i, st, ctx0, r,
              IF r.threw THEN Caught(ctx0, r.val, errorHandling)
              ELSE Returned(ctx0, r, errorHandling),
              CurrentValue(ctx0, r, st.value))

\* the operator call of an iteration that starts with the context ctx0
Invocation(o, errorHandling, i, st, ctx0) ==
    TryCatch(o, errorHandling, i, st, ctx0,
             IF Invokes(ctx0) THEN Operator(o, st.value, ctx0, st.counters[i])
             ELSE Outcome(NoCall, pipeResult(st.value, NoOptions), st.counters[i]))

\* One iteration of the loop of execute(), for the operator o at position i
\* (1-based; the code's index is i - 1).  st is the running state of the call:
\* currentValue, currentContext, the closure counters of the operator
\* instances, the side effects so far and the record of the iterations.
LoopBody(o, errorHandling, i, st) ==
    Invocation(o, errorHandling, i, st, [st.ctx EXCEPT !.index = i - 1])

\* Loop running the operators from the last to the first
RECURSIVE MutLoopBackwards(_, _, _, _)
MutLoopBackwards(ops, errorHandling, i, st) ==
    IF i > Len(ops) THEN st
    ELSE MutLoopBackwards(ops, errorHandling, i + 1,
                          LoopBody(ops[Len(ops) + 1 - i], errorHandling, i, st))

RECURSIVE Loop(_, _, _, _)
Loop(ops, errorHandling, i, st) ==
    IF i > Len(ops) THEN st
    ELSE Loop(ops, errorHandling, i + 1, LoopBody(ops[i], errorHandling, i, st))

\* execute() of the pipe (ctx, ops) whose operator instances have the closure
\* counters cnts: the running state after the loop.  The PipeResult returned
\* is ExecuteResult of it.
execute(ctx, ops, errorHandling, cnts) ==
    Loop(ops, errorHandling, 1,
         [value |-> ctx.value, ctx |-> ctx, counters |-> cnts, effects |-> << >>,
          trace |-> << >>])

ExecuteResult(st) ==
    [value |-> st.value, stopped |-> st.ctx.stopped, error |-> st.ctx.error,
     metadata |-> st.ctx.metadata]

\* value() giving up its value for an error under every policy
MutValueEveryPolicy(res, errorHandling) ==
    IF Truthy(res.error) THEN Undefined ELSE res.value

\* value(): the value returned
value(res, errorHandling) ==
    IF Truthy(res.error) /\ errorHandling = "stop" THEN Undefined ELSE res.value

\* toPromise(): how the promise settles
toPromise(res) ==
    IF Truthy(res.error) THEN [kind |-> "rejected", val |-> res.error]
    ELSE [kind |-> "resolved", val |-> res.value]

\* A callback given to subscribe returns, or throws the string "cb failed".
Callbacks == {"returns", "throws"}

\* cb?.(arg): the call recorded, and whether it threw
Invoke(name, cb, arg) ==
    [log |-> <<[cb |-> name, arg |-> arg]>>, threw |-> cb = "throws"]

\* subscribe(onNext, onError, onComplete): the callbacks called, in order, and
\* how subscribe itself ended (what onError throws in the catch block leaves
\* subscribe)
subscribe(res, onNext, onError, onComplete) ==
    LET thrown == Str("cb failed")
        caught(log) ==
            LET e == Invoke("onError", onError, ToError(thrown))
            IN  [calls |-> log \o e.log,
                 ret |-> IF e.threw THEN [kind |-> "raised", val |-> thrown]
                         ELSE [kind |-> "returned", val |-> Undefined]]
        returned(log) == [calls |-> log, ret |-> [kind |-> "returned", val |-> Undefined]]
    IN  IF Truthy(res.error)
        THEN LET e == Invoke("onError", onError, res.error)
             IN  IF e.threw THEN caught(e.log) ELSE returned(e.log)
        ELSE LET n == Invoke("onNext", onNext, res.value)
                 c == Invoke("onComplete", onComplete, Undefined)
             IN  IF n.threw THEN caught(n.log)
                 ELSE IF c.threw THEN caught(n.log \o c.log)
                 ELSE returned(n.log \o c.log)

----------------------------------------------------------------------------
\* The state machine: createPipe(v, config), then pipe(...) calls, then one
\* terminal method.

NoResult == [value |-> Undefined, stopped |-> FALSE, error |-> Undefined,
             metadata |-> << >>]
NoReturn == [kind |-> "none", val |-> Undefined]

\* No Pipe object of BranchSpec exists.
BranchIdle ==
    /\ pipes = << >>
    /\ closures = << >>
    /\ runs = << >>
    /\ births = << >>

\* No PipeManagerImpl of ManagerSpec exists.
ManagerIdle ==
    /\ mgr = [value |-> Undefined, stopped |-> FALSE, error |-> Undefined,
              metadata |-> Undefined]
    /\ recv = mgr
    /\ last = [method |-> "none", args |-> << >>, log |-> << >>]
    /\ depth = 0
    /\ origin = "none"

\* pipeAsync has not been called.
AsyncIdle ==
    /\ asyncValue = Undefined
    /\ steps = << >>
    /\ asyncResult = Undefined
    /\ ip = 0
    /\ tasks = << >>
    /\ promise = [state |-> "none", val |-> Undefined]
    /\ events = << >>

\* createPipe(value, config)
Init ==
    /\ config \in Policies
    /\ context \in {NewContext(v) : v \in InitialValues}
    /\ operators = << >>
    /\ counters = << >>
    /\ pc = "built"
    /\ method = "none"
    /\ result = NoResult
    /\ ret = NoReturn
    /\ calls = << >>
    /\ effects = << >>
    /\ trace = << >>
    /\ BranchIdle
    /\ ManagerIdle
    /\ AsyncIdle

\* The argument lists of one pipe(...) call: one or two new operator instances.
ArgLists == {<<a>> : a \in OperatorSet} \cup {<<a, b>> : a, b \in OperatorSet}

\* pipe(...operator): the pipe under construction becomes the new pipe
Pipe(args) ==
    /\ pc = "built"
    /\ Len(operators) + Len(args) <= MaxOps
    /\ operators' = operators \o args
    /\ counters' = counters \o [k \in 1..Len(args) |-> 0]
    /\ context' = [context EXCEPT !.total = Len(operators) + 1]
    /\ UNCHANGED <<config, pc, method, result, ret, calls, effects, trace>>
    /\ UNCHANGED <<branchVars, managerVars, asyncVars>>

\* const result = this.execute(): called by the caller, or as the first
\* statement of value(), toPromise() and subscribe().  The state it leaves is
\* the state in which execute() has returned result.
Execute ==
    /\ pc = "built"
    /\ \E st \in {execute(context, operators, config, counters)} :
          /\ result' = ExecuteResult(st)
          /\ counters' = st.counters
          /\ effects' = st.effects
          /\ trace' = st.trace
    /\ pc' = "executed"
    /\ UNCHANGED <<config, context, operators, method, ret, calls>>
    /\ UNCHANGED <<branchVars, managerVars, asyncVars>>

\* value(), after its call of execute()
Value ==
    /\ pc = "executed"
    /\ pc' = "done"
    /\ method' = "value"
    /\ ret' = [kind |-> "returned", val |-> value(result, config)]
    /\ UNCHANGED <<config, context, operators, counters, result, calls, effects, trace>>
    /\ UNCHANGED <<branchVars, managerVars, asyncVars>>

\* toPromise(), after its call of execute()
ToPromise ==
    /\ pc = "executed"
    /\ pc' = "done"
    /\ method' = "toPromise"
    /\ ret' = toPromise(result)
    /\ UNCHANGED <<config, context, operators, counters, result, calls, effects, trace>>
    /\ UNCHANGED <<branchVars, managerVars, asyncVars>>

\* subscribe(onNext, onError, onComplete), after its call of execute()
Subscribe(onNext, onError, onComplete) ==
    /\ pc = "executed"
    /\ pc' = "done"
    /\ method' = "subscribe"
    /\ \E out \in {subscribe(result, onNext, onError, onComplete)} :
          /\ calls' = out.calls
          /\ ret' = out.ret
    /\ UNCHANGED <<config, context, operators, counters, result, effects, trace>>
    /\ UNCHANGED <<branchVars, managerVars, asyncVars>>

Next ==
    \/ \E args \in ArgLists : Pipe(args)
    \/ Execute
    \/ Value
    \/ ToPromise
    \/ \E onNext \in Callbacks, onError \in Callbacks, onComplete \in Callbacks :
          Subscribe(onNext, onError, onComplete)

Spec == Init /\ [][Next]_vars

----------------------------------------------------------------------------
\* ComposeSpec: createPipe(v, config).pipe(compose(op1, ..., opn)), then the
\* pipe is consumed as in Spec.

\* the operators handed to compose
ComposeOps ==
    {Op("map", "inc", 0), Op("map", "throwBoom", 0), Op("map", "retStop", 0),
     Op("map", "retStopMeta", 0), Op("filter", "gt3R", 0), Op("tap", "log", 0),
     Op("throwError", "fail", 0), Op("catchError", "none", 0), Op("take", "", 1)}

\* one to MaxOps of them
ComposeArgLists ==
    UNION {[1..n -> ComposeOps] : n \in 1..MaxOps}

\* the operator that compose(...operators_) returns
ComposedOperator(operators_) == [op |-> "compose", fn |-> "", count |-> 0, parts |-> operators_]

\* this.pipe(compose(...operators_)) on the new pipe
PipeCompose(operators_) ==
    /\ pc = "built"
    /\ operators = << >>
    /\ operators' = <<ComposedOperator(operators_)>>
    /\ counters' = <<[k \in DOMAIN operators_ |-> 0]>>
    /\ context' = [context EXCEPT !.total = 1]
    /\ UNCHANGED <<config, pc, method, result, ret, calls, effects, trace>>
    /\ UNCHANGED <<branchVars, managerVars, asyncVars>>

ComposeNext ==
    \/ \E operators_ \in ComposeArgLists : PipeCompose(operators_)
    \/ Execute
    \/ Value
    \/ ToPromise
    \/ \E onNext \in Callbacks, onError \in Callbacks, onComplete \in Callbacks :
          Subscribe(onNext, onError, onComplete)

ComposeSpec == Init /\ [][ComposeNext]_vars

----------------------------------------------------------------------------
\* BranchSpec: createPipe(v, config), then pipe() calls on any Pipe object
\* created so far and subscribe() calls on any of them, in any order.

\* No Pipe of Spec exists.
PipeIdle ==
    /\ config = "stop"
    /\ context = NewContext(Undefined)
    /\ operators = << >>
    /\ counters = << >>
    /\ pc = "idle"
    /\ method = "none"
    /\ result = NoResult
    /\ ret = NoReturn
    /\ calls = << >>
    /\ effects = << >>
    /\ trace = << >>

\* The initial values, the policies and the operators of the pipes of
\* BranchSpec ("retry" takes the same path through execute as "continue").
BranchValues == {Num(3)}
BranchPolicies == {"stop", "continue"}
BranchOps ==
    {Op("map", "inc", 0), Op("map", "throwBoom", 0), Op("map", "retMeta", 0),
     Op("filter", "gt3R", 0), Op("tap", "log", 0), Op("take", "", 1),
     Op("skip", "", 1)}

\* The operator instance a factory call returns: the operator with the
\* identity of its closure.
Instance(o, id) == [op |-> o.op, fn |-> o.fn, count |-> o.count, id |-> id]

\* new Pipe(initialValue, config)
NewPipe(initialValue, errorHandling) ==
    [context |-> NewContext(initialValue), operators |-> << >>,
     config |-> errorHandling]

\* this.pipe(...operator): the receiver after the call and the Pipe returned
pipe(this, operator) ==
    [this |-> this,
     newPipe |-> [context |-> [this.context EXCEPT !.total = Len(this.operators) + 1],
                  operators |-> this.operators \o operator,
                  config |-> this.config]]

\* ThisContext with execute() working on this.context itself
MutThisContextAliased(ctx, st) == st.ctx

\* this.context after execute() of a pipe whose stored context was ctx, when
\* the loop has ended in the running state st: execute works on a copy
ThisContext(ctx, st) == ctx

\* CountersOf with counters that start anew in every execution
MutCountersPerExecution(ops) == [k \in DOMAIN ops |-> 0]

\* the closure counters of the operator instances ops, in chain order
CountersOf(ops) == [k \in DOMAIN ops |-> closures[ops[k].id]]

\* the closure counters after an execution of ops that left the counters cnts
ClosuresAfter(ops, cnts) ==
    [id \in DOMAIN closures |->
        IF \E k \in DOMAIN ops : ops[k].id = id
        THEN cnts[CHOOSE k \in DOMAIN ops : ops[k].id = id]
        ELSE closures[id]]

BranchInit ==
    /\ \E v \in BranchValues, c \in BranchPolicies : pipes = <<NewPipe(v, c)>>
    /\ closures = << >>
    /\ runs = << >>
    /\ births = <<[from |-> 0, args |-> << >>, before |-> NewPipe(Undefined, "stop")]>>
    /\ PipeIdle
    /\ ManagerIdle
    /\ AsyncIdle

\* pipes[i].pipe(op) with an operator instance made for this call
Branch(i, o) ==
    /\ i \in DOMAIN pipes
    /\ Len(pipes) < MaxPipes
    /\ Len(pipes[i].operators) + 1 <= MaxOps
    /\ LET args == <<Instance(o, Len(closures) + 1)>>
           out == pipe(pipes[i], args)
       IN  /\ pipes' = Append([pipes EXCEPT ![i] = out.this], out.newPipe)
           /\ births' = Append(births, [from |-> i, args |-> args, before |-> pipes[i]])
    /\ closures' = Append(closures, 0)
    /\ UNCHANGED runs
    /\ UNCHANGED <<pipeVars, managerVars, asyncVars>>

\* what an execution did with its operators: for every iteration the
\* operator instance, what it was given, and what it returned or threw
Invocations(tr) ==
    [k \in DOMAIN tr |->
        [op |-> tr[k].op, input |-> tr[k].input, invoked |-> tr[k].invoked,
         threw |-> tr[k].threw, out |-> tr[k].out]]

\* pipes[i].subscribe(onNext, onError, onComplete) with callbacks that return
Resubscribe(i) ==
    /\ i \in DOMAIN pipes
    /\ Len(runs) < MaxRuns
    /\ \E st \in {execute(pipes[i].context, pipes[i].operators, pipes[i].config,
                           CountersOf(pipes[i].operators))} :
          /\ pipes' = [pipes EXCEPT ![i].context = ThisContext(@, st)]
          /\ closures' = ClosuresAfter(pipes[i].operators, st.counters)
          /\ runs' = Append(runs,
                 [pipe |-> i,
                  before |-> pipes[i],
                  result |-> ExecuteResult(st),
                  calls |-> subscribe(ExecuteResult(st), "returns", "returns",
                                      "returns").calls,
                  effects |-> st.effects,
                  trace |-> Invocations(st.trace)])
    /\ UNCHANGED births
    /\ UNCHANGED <<pipeVars, managerVars, asyncVars>>

BranchNext ==
    \/ \E i \in 1..MaxPipes, o \in BranchOps : Branch(i, o)
    \/ \E i \in 1..MaxPipes : Resubscribe(i)

BranchSpec == BranchInit /\ [][BranchNext]_vars

----------------------------------------------------------------------------
\* class PipeManagerImpl.  A context is [value, stopped, error, metadata]; a
\* key that an object literal leaves out reads as undefined.  A method gives
\* [this, context, log]: the receiver's context after the call, the context of
\* the manager returned, and the callbacks invoked, in order.

Context(v, stopped, e, md) ==
    [value |-> v, stopped |-> stopped, error |-> e, metadata |-> md]

\* the callbacks of the caller
ManagerValues == {Num(1), Num(5)}
ManagerOperators == {"inc", "dbl", "throwBoom"}
ManagerPredicates == {"gt3", "gt0", "throwStr"}
ManagerEffects == {"log", "throwBoom"}
ManagerHandlers == {"recover", "msgLen", "rethrow"}
RetryTimes == {-1, 0, 1, 2}
\* the operators given to mapMany, the reducers and the initial values given
\* to reduce, the durations given to timeout
ManyOperators == {"pair"}
Reducers == {"add", "throwBoom"}
Initials == {Num(10)}
Durations == {5}

\* operator(acc, value)
CallReducer(fn, acc, v) ==
    CASE fn = "add" -> Returns(Add(acc, v))                 \* (acc, v) => acc + v
      [] fn = "throwBoom" -> Throws(Err("boom"))            \* () => { throw new Error("boom") }

\* handler(error, value)
CallHandler(fn, e, v) ==
    CASE fn = "recover" -> Returns(Plus(v, 100))            \* (e, v) => v + 100
      [] fn = "msgLen" -> Returns(Plus(v, Len(e.s)))        \* (e, v) => v + e.message.length
      [] fn = "rethrow" -> Throws(Err("again"))             \* () => { throw new Error("again") }

\* a condition: the predicate fn, or (value) => !fn(value)
Cond(fn) == [fn |-> fn, neg |-> FALSE]
Not(condition) == [condition EXCEPT !.neg = ~@]

\* condition(value)
Test(condition, v) ==
    LET c == Call(condition.fn, v)
    IN  IF c.threw \/ ~condition.neg THEN c ELSE Returns(Bool(~Truthy(c.val)))

\* the record of one callback invocation
Invoked(fn, arg, e) == <<[fn |-> fn, arg |-> arg, err |-> e]>>

\* Created with the method writing ctx into the receiver's own context
MutCreatedInPlace(this, ctx, log) == [this |-> ctx, context |-> ctx, log |-> log]

\* return this.createManager(ctx), the method having invoked log
Created(this, ctx, log) == [this |-> this, context |-> ctx, log |-> log]

\* error instanceof Error ? error : new Error(String(error)) in a catch block
Failed(this, thrown, md, log) ==
    Created(this, Context(this.value, TRUE, ToError(thrown), md), log)

\* if (this._context.stopped || this._context.error)
Bypassed(this) == this.stopped \/ Truthy(this.error)

\* get isStopped(), get hasError()
isStopped(this) == this.stopped
hasError(this) == Truthy(this.error)

\* resume that clears the stopped flag only
MutResumeKeepsError(this) ==
    Created(this, [this EXCEPT !.stopped = FALSE], << >>)

PipeManagerImpl_stop(this) ==
    Created(this, [this EXCEPT !.stopped = TRUE], << >>)

PipeManagerImpl_resume(this) ==
    Created(this, [this EXCEPT !.stopped = FALSE, !.error = Undefined], << >>)

PipeManagerImpl_reset(this) ==
    Created(this, Context(this.value, FALSE, Undefined, Undefined), << >>)

PipeManagerImpl_map(this, operator) ==
    IF Bypassed(this)
    THEN Created(this, Context(this.value, this.stopped, this.error, Undefined), << >>)
    ELSE LET c == Call(operator, this.value)
             log == Invoked(operator, this.value, Undefined)
         IN  IF c.threw THEN Failed(this, c.val, Undefined, log)
             ELSE Created(this, Context(c.val, FALSE, Undefined, this.metadata), log)

\* this.map(fn) for a function fn that gives c when it is called with
\* this.value, invoking the callbacks in log
Mapped(this, c, log) ==
    IF Bypassed(this)
    THEN Created(this, Context(this.value, this.stopped, this.error, Undefined), << >>)
    ELSE IF c.threw THEN Failed(this, c.val, Undefined, log)
    ELSE Created(this, Context(c.val, FALSE, Undefined, this.metadata), log)

PipeManagerImpl_mapMany(this, operator) == PipeManagerImpl_map(this, operator)

\* (value) => predicate(value) ? [value] : []
Selected(c, v) ==
    IF c.threw THEN c ELSE Returns(Arr(IF Truthy(c.val) THEN <<v>> ELSE << >>))

PipeManagerImpl_filterMany(this, predicate) ==
    Mapped(this, Selected(Call(predicate, this.value), this.value),
           Invoked(predicate, this.value, Undefined))

PipeManagerImpl_reduce(this, operator, initial) ==
    Mapped(this, CallReducer(operator, initial, this.value),
           Invoked(operator, this.value, Undefined))

\* what the timer of timeout(ms) resolves the promise with when it fires
PipeManagerImpl_timeout(this, ms) ==
    Created(this,
            Context(this.value, TRUE,
                    Err("Operation timed out after " \o ToString(ms) \o "ms"),
                    this.metadata),
            << >>)

PipeManagerImpl_tap(this, effect) ==
    IF Bypassed(this) THEN Created(this, this, << >>)
    ELSE LET c == Call(effect, this.value)
             log == Invoked(effect, this.value, Undefined)
         IN  IF c.threw THEN Failed(this, c.val, this.metadata, log)
             ELSE Created(this, this, log)

PipeManagerImpl_filter(this, predicate) ==
    IF Bypassed(this) THEN Created(this, this, << >>)
    ELSE LET c == Call(predicate, this.value)
             log == Invoked(predicate, this.value, Undefined)
         IN  IF c.threw THEN Failed(this, c.val, this.metadata, log)
             ELSE Created(this, [this EXCEPT !.stopped = ~Truthy(c.val)], log)

\* catch with a handler that is called whether or not there is an error
MutCatchAlways(this, handler) ==
    LET c == CallHandler(handler, this.error, this.value)
        log == Invoked(handler, this.value, this.error)
    IN  IF c.threw THEN Failed(this, c.val, Undefined, log)
        ELSE Created(this, Context(c.val, FALSE, Undefined, this.metadata), log)

PipeManagerImpl_catch(this, handler) ==
    IF Truthy(this.error)
    THEN LET c == CallHandler(handler, this.error, this.value)
             log == Invoked(handler, this.value, this.error)
         IN  IF c.threw THEN Failed(this, c.val, Undefined, log)
             ELSE Created(this, Context(c.val, FALSE, Undefined, this.metadata), log)
    ELSE Created(this, Context(this.value, this.stopped, this.error, this.metadata), << >>)

\* retry that resumes every stopped manager, with or without an error
MutRetryAnyStop(this, times) ==
    IF this.stopped /\ times > 0
    THEN Created(this, [this EXCEPT !.stopped = FALSE, !.error = Undefined], << >>)
    ELSE Created(this, this, << >>)

RECURSIVE PipeManagerImpl_retry(_, _)
PipeManagerImpl_retry(this, times) ==
    IF this.stopped /\ Truthy(this.error) /\ times > 0
    THEN LET next == PipeManagerImpl_retry(
                        [this EXCEPT !.stopped = FALSE, !.error = Undefined], times - 1)
         IN  Created(this, next.context, next.log)
    ELSE Created(this, this, << >>)

\* when that applies the operator whatever the condition answers
MutWhenUnconditional(this, condition, operator) ==
    PipeManagerImpl_map(this, operator)

PipeManagerImpl_when(this, condition, operator) ==
    IF Bypassed(this)
    THEN Created(this, Context(this.value, this.stopped, this.error, Undefined), << >>)
    ELSE LET t == Test(condition, this.value)
             tlog == Invoked(condition.fn, this.value, Undefined)
         IN  IF t.threw THEN Failed(this, t.val, Undefined, tlog)
             ELSE IF Truthy(t.val)
             THEN LET c == Call(operator, this.value)
                      log == tlog \o Invoked(operator, this.value, Undefined)
                  IN  IF c.threw THEN Failed(this, c.val, Undefined, log)
                      ELSE Created(this, Context(c.val, FALSE, Undefined, this.metadata), log)
             ELSE Created(this, Context(this.value, this.stopped, this.error, this.metadata),
                          tlog)

PipeManagerImpl_unless(this, condition, operator) ==
    PipeManagerImpl_when(this, Not(condition), operator)

\* the loop of switch from case i on, log being the callbacks invoked so far
RECURSIVE SwitchFrom(_, _, _, _, _)
SwitchFrom(this, cases, defaultOperator, i, log) ==
    IF i > Len(cases)
    THEN IF defaultOperator # "none"
         THEN LET c == Call(defaultOperator, this.value)
                  dlog == log \o Invoked(defaultOperator, this.value, Undefined)
              IN  IF c.threw THEN Failed(this, c.val, Undefined, dlog)
                  ELSE Created(this, Context(c.val, FALSE, Undefined, this.metadata), dlog)
         ELSE Failed(this, Err("No matching case found in switch statement"), Undefined, log)
    ELSE LET t == Test(cases[i].condition, this.value)
             tlog == log \o Invoked(cases[i].condition.fn, this.value, Undefined)
         IN  IF t.threw THEN Failed(this, t.val, Undefined, tlog)
             ELSE IF Truthy(t.val)
             THEN LET c == Call(cases[i].operator, this.value)
                      olog == tlog \o Invoked(cases[i].operator, this.value, Undefined)
                  IN  IF c.threw THEN Failed(this, c.val, Undefined, olog)
                      ELSE Created(this, Context(c.val, FALSE, Undefined, this.metadata), olog)
             ELSE SwitchFrom(this, cases, defaultOperator, i + 1, tlog)

\* switch that tries the cases from the last to the first
MutSwitchBackwards(this, cases, defaultOperator) ==
    IF Bypassed(this)
    THEN Created(this, Context(this.value, this.stopped, this.error, Undefined), << >>)
    ELSE SwitchFrom(this, [k \in DOMAIN cases |-> cases[Len(cases) + 1 - k]],
                    defaultOperator, 1, << >>)

PipeManagerImpl_switch(this, cases, defaultOperator) ==
    IF Bypassed(this)
    THEN Created(this, Context(this.value, this.stopped, this.error, Undefined), << >>)
    ELSE SwitchFrom(this, cases, defaultOperator, 1, << >>)

\* createPipe(value) of pipe-operators.ts, which pipe1(value) returns
pipe1(v) == Context(v, FALSE, Undefined, Undefined)

----------------------------------------------------------------------------
\* ManagerSpec: a first manager, made by createPipe(value) or by
\* new PipeManagerImpl(context), then method calls, each on the manager the
\* call before returned.

\* the contexts handed to the constructor
ManagerContexts ==
    {Context(v, stopped, e, md) :
        v \in ManagerValues, stopped \in BOOLEAN, e \in {Undefined, Err("old")},
        md \in {Undefined, Meta([k \in {"a"} |-> Num(1)])}}

\* the cases of a switch
Cases ==
    {[condition |-> Cond(c), operator |-> o] :
        c \in ManagerPredicates, o \in ManagerOperators}
\* the case arrays: no, one or two cases
CaseLists == {<< >>} \cup {<<a>> : a \in Cases} \cup {<<a, b>> : a, b \in Cases}
Defaults == {"none", "dbl", "throwBoom"}

ManagerInit ==
    /\ \/ origin = "createPipe" /\ mgr \in {pipe1(v) : v \in ManagerValues}
       \/ origin = "constructor" /\ mgr \in ManagerContexts
    /\ recv = mgr
    /\ last = [method |-> "none", args |-> << >>, log |-> << >>]
    /\ depth = 0
    /\ PipeIdle
    /\ BranchIdle
    /\ AsyncIdle

\* mgr.name(args) has returned out; mgr is the manager that the call before
\* returned, or that the promise of timeout was resolved with
Called(name, args, out) ==
    /\ tasks = << >>
    /\ depth' = depth + 1
    /\ recv' = out.this
    /\ mgr' = out.context
    /\ last' = [method |-> name, args |-> args, log |-> out.log]
    /\ UNCHANGED origin
    /\ UNCHANGED <<pipeVars, branchVars, asyncVars>>

Stop ==
    /\ depth < MaxCalls
    /\ Called("stop", << >>, PipeManagerImpl_stop(mgr))

Resume ==
    /\ depth < MaxCalls
    /\ Called("resume", << >>, PipeManagerImpl_resume(mgr))

Reset ==
    /\ depth < MaxCalls
    /\ Called("reset", << >>, PipeManagerImpl_reset(mgr))

Map(operator) ==
    /\ depth < MaxCalls
    /\ Called("map", <<operator>>, PipeManagerImpl_map(mgr, operator))

Tap(effect) ==
    /\ depth < MaxCalls
    /\ Called("tap", <<effect>>, PipeManagerImpl_tap(mgr, effect))

Filter(predicate) ==
    /\ depth < MaxCalls
    /\ Called("filter", <<predicate>>, PipeManagerImpl_filter(mgr, predicate))

Catch(handler) ==
    /\ depth < MaxCalls
    /\ Called("catch", <<handler>>, PipeManagerImpl_catch(mgr, handler))

Retry(times) ==
    /\ depth < MaxCalls
    /\ Called("retry", <<times>>, PipeManagerImpl_retry(mgr, times))

When(condition, operator) ==
    /\ depth < MaxCalls
    /\ Called("when", <<condition, operator>>,
              PipeManagerImpl_when(mgr, Cond(condition), operator))

Unless(condition, operator) ==
    /\ depth < MaxCalls
    /\ Called("unless", <<condition, operator>>,
              PipeManagerImpl_unless(mgr, Cond(condition), operator))

Switch(cases, defaultOperator) ==
    /\ depth < MaxCalls
    /\ Called("switch", <<cases, defaultOperator>>,
              PipeManagerImpl_switch(mgr, cases, defaultOperator))

MapMany(operator) ==
    /\ depth < MaxCalls
    /\ Called("mapMany", <<operator>>, PipeManagerImpl_mapMany(mgr, operator))

FilterMany(predicate) ==
    /\ depth < MaxCalls
    /\ Called("filterMany", <<predicate>>, PipeManagerImpl_filterMany(mgr, predicate))

ReduceValue(operator, initial) ==
    /\ depth < MaxCalls
    /\ Called("reduce", <<operator, initial>>,
              PipeManagerImpl_reduce(mgr, operator, initial))

\* mgr.timeout(ms): the promise returned is resolved at once with a manager
\* of the same context when mgr runs and has no error; else it is pending,
\* in tasks, until the timer fires
Timeout(ms) ==
    /\ depth < MaxCalls
    /\ IF Bypassed(mgr)
       THEN /\ tasks = << >>
            /\ tasks' = <<[method |-> "timeout", fn |-> ms, this |-> mgr,
                           state |-> "pending"]>>
            /\ UNCHANGED <<managerVars, asyncValue, steps, asyncResult, ip, promise,
                           events>>
            /\ UNCHANGED <<pipeVars, branchVars>>
       ELSE Called("timeout", <<ms>>, Created(mgr, mgr, << >>))

\* The timer of the pending timeout fires and resolves the promise.
Expire ==
    /\ tasks # << >>
    /\ tasks[1].method = "timeout"
    /\ LET out == PipeManagerImpl_timeout(tasks[1].this, tasks[1].fn)
       IN  /\ depth' = depth + 1
           /\ recv' = out.this
           /\ mgr' = out.context
           /\ last' = [method |-> "timeout", args |-> <<tasks[1].fn>>, log |-> out.log]
    /\ tasks' = << >>
    /\ UNCHANGED <<origin, asyncValue, steps, asyncResult, ip, promise, events>>
    /\ UNCHANGED <<pipeVars, branchVars>>

ManagerNext ==
    \/ Stop
    \/ Resume
    \/ Reset
    \/ \E operator \in ManagerOperators : Map(operator)
    \/ \E effect \in ManagerEffects : Tap(effect)
    \/ \E predicate \in ManagerPredicates : Filter(predicate)
    \/ \E handler \in ManagerHandlers : Catch(handler)
    \/ \E times \in RetryTimes : Retry(times)
    \/ \E condition \in ManagerPredicates, operator \in ManagerOperators :
          When(condition, operator)
    \/ \E condition \in ManagerPredicates, operator \in ManagerOperators :
          Unless(condition, operator)
    \/ \E cases \in CaseLists, defaultOperator \in Defaults :
          Switch(cases, defaultOperator)
    \/ \E operator \in ManyOperators : MapMany(operator)
    \/ \E predicate \in ManagerPredicates : FilterMany(predicate)
    \/ \E operator \in Reducers, initial \in Initials : ReduceValue(operator, initial)
    \/ \E ms \in Durations : Timeout(ms)
    \/ Expire

ManagerSpec == ManagerInit /\ [][ManagerNext]_vars

----------------------------------------------------------------------------
\* ObjectsSpec: the objects of either class, a chain of PipeManagerImpl
\* managers or Pipe objects branched from one another, under every call that
\* ManagerSpec and BranchSpec make on them.

ObjectsInit == ManagerInit \/ BranchInit

\* the operators of the pipes and the case arrays of switch
ObjectsOps ==
    {Op("map", "retMeta", 0), Op("map", "throwBoom", 0), Op("filter", "gt3R", 0),
     Op("take", "", 1)}
ObjectsCaseLists == {<< >>} \cup {<<a>> : a \in Cases}

\* there is a manager (ManagerInit), or there are pipes (BranchInit)
HasManager == origin # "none"

ObjectsNext ==
    \/ HasManager /\ Stop
    \/ HasManager /\ Resume
    \/ HasManager /\ Reset
    \/ \E operator \in ManagerOperators : HasManager /\ Map(operator)
    \/ \E effect \in ManagerEffects : HasManager /\ Tap(effect)
    \/ \E predicate \in ManagerPredicates : HasManager /\ Filter(predicate)
    \/ \E handler \in ManagerHandlers : HasManager /\ Catch(handler)
    \/ \E times \in RetryTimes : HasManager /\ Retry(times)
    \/ \E condition \in ManagerPredicates, operator \in ManagerOperators :
          HasManager /\ When(condition, operator)
    \/ \E condition \in ManagerPredicates, operator \in ManagerOperators :
          HasManager /\ Unless(condition, operator)
    \/ \E cases \in ObjectsCaseLists, defaultOperator \in Defaults :
          HasManager /\ Switch(cases, defaultOperator)
    \/ \E operator \in ManyOperators : HasManager /\ MapMany(operator)
    \/ \E predicate \in ManagerPredicates : HasManager /\ FilterMany(predicate)
    \/ \E operator \in Reducers, initial \in Initials :
          HasManager /\ ReduceValue(operator, initial)
    \/ \E ms \in Durations : HasManager /\ Timeout(ms)
    \/ HasManager /\ Expire
    \/ \E i \in 1..MaxPipes, o \in ObjectsOps : ~HasManager /\ Branch(i, o)
    \/ \E i \in 1..MaxPipes : ~HasManager /\ Resubscribe(i)

ObjectsSpec == ObjectsInit /\ [][ObjectsNext]_vars

----------------------------------------------------------------------------
\* pipeAsync(value, ...steps) of pipe-object.ts; pipeAsyncFn(...steps)(value)
\* runs the same body.  A function of the caller either throws when it is
\* called or returns a promise, which is fulfilled or rejected at some later
\* time; an array value is [t |-> "array", items].

Tag(name, x) == [t |-> "object", tag |-> name, of |-> x]

AsyncValues == {Num(1)}
AsyncFns == {"tagA", "tagB", "rejectA", "rejectB", "throwS"}

\* fn(x): whether the call throws, else how the promise it returns settles
StartFn(fn, x) ==
    CASE fn = "tagA" ->      \* async x => ({ a: x })
            [threw |-> FALSE, state |-> "fulfilled", val |-> Tag("a", x)]
      [] fn = "tagB" ->      \* async x => ({ b: x })
            [threw |-> FALSE, state |-> "fulfilled", val |-> Tag("b", x)]
      [] fn = "rejectA" ->   \* async () => { throw new Error("A") }
            [threw |-> FALSE, state |-> "rejected", val |-> Err("A")]
      [] fn = "rejectB" ->   \* async () => { throw new Error("B") }
            [threw |-> FALSE, state |-> "rejected", val |-> Err("B")]
      [] fn = "throwS" ->    \* () => { throw new Error("S") }
            [threw |-> TRUE, state |-> "none", val |-> Err("S")]
      [] fn = "incAsync" ->  \* async x => x + 1
            [threw |-> FALSE, state |-> "fulfilled", val |-> Plus(x, 1)]
      [] fn = "rejectBoom" -> \* async () => { throw new Error("boom") }
            [threw |-> FALSE, state |-> "rejected", val |-> Err("boom")]
      [] fn = "rejectStr" -> \* () => Promise.reject("oops")
            [threw |-> FALSE, state |-> "rejected", val |-> Str("oops")]
      [] fn = "throwBoom" -> \* () => { throw new Error("boom") }
            [threw |-> TRUE, state |-> "none", val |-> Err("boom")]

\* the steps: a function, or an array of no, two or three functions
SequentialSteps == {[array |-> FALSE, fns |-> <<f>>] : f \in AsyncFns}
ParallelSteps ==
    {[array |-> TRUE, fns |-> << >>]}
    \cup {[array |-> TRUE, fns |-> <<f, g>>] : f, g \in AsyncFns}
    \cup {[array |-> TRUE, fns |-> <<f, g, h>>] : f, g, h \in {"tagA", "rejectA", "throwS"}}
Steps == SequentialSteps \cup ParallelSteps
StepLists == {<< >>} \cup {<<a>> : a \in Steps} \cup {<<a, b>> : a, b \in Steps}

\* Awaited with the results in the order in which the promises settled
MutAwaitedInCompletionOrder(step, ts) ==
    IF step.array
    THEN LET settled == SelectSeq(events, LAMBDA e : e.kind = "fulfilled" /\ e.step = ip)
         IN  Arr([k \in DOMAIN settled |-> settled[k].val])
    ELSE ts[1].val

\* what `await Promise.all(step.map(...))` or `await step(result)` gives when
\* the promises ts of the step are fulfilled
Awaited(step, ts) ==
    IF step.array THEN Arr([k \in DOMAIN ts |-> ts[k].val]) ELSE ts[1].val

\* the rejections of the promises of the step entered last, in the order in
\* which they happened
Rejections(evs) == SelectSeq(evs, LAMBDA e : e.kind = "rejected" /\ e.step = ip)

\* the promise of pipeAsync taking the latest rejection
MutLastRejectionWins(p, evs) ==
    [state |-> "rejected", val |-> Rejections(evs)[Len(Rejections(evs))].val]

\* the pending promise p of pipeAsync when the await throws: Promise.all, or
\* the awaited promise of a sequential step, was rejected by the first
\* rejection among the promises of the step
Rejection(p, evs) ==
    [state |-> "rejected", val |-> Rejections(evs)[1].val]

\* the awaited promises of the step entered last are all fulfilled
Joined == \A k \in DOMAIN tasks : tasks[k].state = "fulfilled"

\* result as the next statement after the await reads it
NextResult == IF ip = 0 THEN asyncResult ELSE Awaited(steps[ip], tasks)

AsyncInit ==
    /\ asyncValue \in AsyncValues
    /\ steps \in StepLists
    /\ asyncResult = asyncValue      \* let result = await value
    /\ ip = 0
    /\ tasks = << >>
    /\ promise = [state |-> "pending", val |-> Undefined]
    /\ events = << >>
    /\ PipeIdle
    /\ BranchIdle
    /\ ManagerIdle

\* The body resumes after an await and runs to the next one: it assigns
\* result, takes the next step and calls its function, or the functions of
\* the array one after the other in array order.  A function that throws
\* ends the calls and rejects the promise of pipeAsync.
Start ==
    /\ promise.state = "pending"
    /\ ip < Len(steps)
    /\ Joined
    /\ LET step == steps[ip + 1]
           arg == NextResult
           outs == [k \in DOMAIN step.fns |-> StartFn(step.fns[k], arg)]
           throwers == {k \in DOMAIN step.fns : outs[k].threw}
           called == IF throwers = {} THEN Len(step.fns)
                     ELSE CHOOSE k \in throwers : \A j \in throwers : k <= j
       IN  /\ asyncResult' = arg
           /\ ip' = ip + 1
           /\ tasks' = [k \in 1..(IF throwers = {} THEN called ELSE called - 1) |->
                           [fn |-> step.fns[k], arg |-> arg, state |-> "pending",
                            val |-> Undefined]]
           /\ events' = events \o
                  [k \in 1..called |->
                      [kind |-> IF outs[k].threw THEN "threw" ELSE "called",
                       step |-> ip + 1, k |-> k, fn |-> step.fns[k], arg |-> arg,
                       val |-> IF outs[k].threw THEN outs[k].val ELSE Undefined]]
           /\ promise' = IF throwers = {} THEN promise
                         ELSE [state |-> "rejected", val |-> outs[called].val]
    /\ UNCHANGED <<asyncValue, steps>>
    /\ UNCHANGED <<pipeVars, branchVars, managerVars>>

\* The promise that function k of the step returned settles.
Settle(k) ==
    /\ k \in DOMAIN tasks
    /\ tasks[k].state = "pending"
    /\ LET outcome == StartFn(tasks[k].fn, tasks[k].arg)
       IN  /\ tasks' = [tasks EXCEPT ![k].state = outcome.state, ![k].val = outcome.val]
           /\ events' = Append(events, [kind |-> outcome.state, step |-> ip, k |-> k,
                                        fn |-> tasks[k].fn, arg |-> tasks[k].arg,
                                        val |-> outcome.val])
    /\ UNCHANGED <<asyncValue, steps, asyncResult, ip, promise>>
    /\ UNCHANGED <<pipeVars, branchVars, managerVars>>

\* The body resumes after an await whose promise was rejected: the await
\* throws, nothing catches it, and the promise of pipeAsync is rejected.
Reject ==
    /\ promise.state = "pending"
    /\ \E k \in DOMAIN tasks : tasks[k].state = "rejected"
    /\ promise' = Rejection(promise, events)
    /\ UNCHANGED <<asyncValue, steps, asyncResult, ip, tasks, events>>
    /\ UNCHANGED <<pipeVars, branchVars, managerVars>>

\* return result, after the last step
Return ==
    /\ promise.state = "pending"
    /\ ip = Len(steps)
    /\ Joined
    /\ asyncResult' = NextResult
    /\ promise' = [state |-> "fulfilled", val |-> NextResult]
    /\ UNCHANGED <<asyncValue, steps, ip, tasks, events>>
    /\ UNCHANGED <<pipeVars, branchVars, managerVars>>

AsyncNext ==
    \/ Start
    \/ \E k \in 1..3 : Settle(k)
    \/ Reject
    \/ Return

AsyncSpec == AsyncInit /\ [][AsyncNext]_vars

\* The microtask queue runs every job that is queued: a body whose await has
\* a rejected promise does resume.
AsyncFairSpec == AsyncSpec /\ WF_vars(Reject)

----------------------------------------------------------------------------
\* mapAsync and tapAsync of PipeManagerImpl.  ManagerAsyncSpec: a first
\* manager as in ManagerSpec, then a chain of mapAsync, tapAsync, map and
\* stop calls, each made on the manager that the call before returned or
\* that its promise resolved with, and toPromise() at the end.  tasks holds
\* the promise that the suspended method awaits, promise what toPromise()
\* returned, events the calls of the functions (called, threw), the
\* settlements of their promises (fulfilled, rejected) and the calls of the
\* chained methods (ran).

ManagerAsyncFns == {"incAsync", "rejectBoom", "rejectStr", "throwBoom"}

\* what `await fn(x)` gives or throws
AwaitOutcome(fn, x) ==
    LET c == StartFn(fn, x)
    IN  IF c.threw \/ c.state = "rejected" THEN Throws(c.val) ELSE Returns(c.val)

\* the manager that the promise of mapAsync(operator) resolves with
PipeManagerImpl_mapAsync(this, operator) ==
    IF Bypassed(this)
    THEN Created(this, Context(this.value, this.stopped, this.error, Undefined), << >>)
    ELSE LET c == AwaitOutcome(operator, this.value)
             log == Invoked(operator, this.value, Undefined)
         IN  IF c.threw THEN Failed(this, c.val, Undefined, log)
             ELSE Created(this, Context(c.val, FALSE, Undefined, this.metadata), log)

\* the manager that the promise of tapAsync(effect) resolves with
PipeManagerImpl_tapAsync(this, effect) ==
    IF Bypassed(this) THEN Created(this, this, << >>)
    ELSE LET c == AwaitOutcome(effect, this.value)
             log == Invoked(effect, this.value, Undefined)
         IN  IF c.threw THEN Failed(this, c.val, this.metadata, log)
             ELSE Created(this, this, log)

PipeManagerImpl_toPromise(this) ==
    IF Truthy(this.error) THEN [state |-> "rejected", val |-> this.error]
    ELSE [state |-> "fulfilled", val |-> this.value]

AsyncMethod(name, this, fn) ==
    IF name = "mapAsync" THEN PipeManagerImpl_mapAsync(this, fn)
    ELSE PipeManagerImpl_tapAsync(this, fn)

\* the call reaches its await with a promise that is pending
Suspends(this, fn) == ~Bypassed(this) /\ ~StartFn(fn, this.value).threw

\* Ready with the next method called while the promise is still pending
MutReadyBeforeSettled == TRUE

\* The promise of the last mapAsync or tapAsync call has resolved (or the
\* last call was synchronous): there is a manager to call the next method on.
Ready == tasks = << >>

Event(kind, fn, arg) == [kind |-> kind, fn |-> fn, arg |-> arg]

\* the method name has given the manager out; evs are its events
AsyncCalled(name, args, out, evs) ==
    /\ depth' = depth + 1
    /\ recv' = out.this
    /\ mgr' = out.context
    /\ last' = [method |-> name, args |-> args, log |-> out.log]
    /\ events' = events \o evs
    /\ UNCHANGED <<origin, asyncValue, steps, asyncResult, ip, promise>>
    /\ UNCHANGED <<pipeVars, branchVars>>

\* mgr.mapAsync(fn) or mgr.tapAsync(fn) up to its first await, or to its
\* return when it does not get there
CallAsync(name, fn) ==
    /\ Ready
    /\ promise.state = "none"
    /\ IF Suspends(mgr, fn)
       THEN /\ tasks' = <<[method |-> name, fn |-> fn, this |-> mgr, state |-> "pending"]>>
            /\ events' = Append(events, Event("called", fn, mgr.value))
            /\ UNCHANGED <<managerVars, asyncValue, steps, asyncResult, ip, promise>>
            /\ UNCHANGED <<pipeVars, branchVars>>
       ELSE /\ AsyncCalled(name, <<fn>>, AsyncMethod(name, mgr, fn),
                           IF Bypassed(mgr) THEN << >>
                           ELSE <<Event("threw", fn, mgr.value)>>)
            /\ UNCHANGED tasks

MapAsync(operator) ==
    /\ depth < MaxCalls
    /\ CallAsync("mapAsync", operator)

TapAsync(effect) ==
    /\ depth < MaxCalls
    /\ CallAsync("tapAsync", effect)

\* The awaited promise settles and the suspended method runs to its return.
Resolve ==
    /\ tasks # << >>
    /\ LET t == tasks[1]
       IN  AsyncCalled(t.method, <<t.fn>>, AsyncMethod(t.method, t.this, t.fn),
                       <<Event(StartFn(t.fn, t.this.value).state, t.fn, t.this.value)>>)
    /\ tasks' = << >>

\* .map(operator) on the manager of the chain
ThenMap(operator) ==
    /\ depth < MaxCalls
    /\ Ready
    /\ promise.state = "none"
    /\ AsyncCalled("map", <<operator>>, PipeManagerImpl_map(mgr, operator),
                   <<Event("ran", operator, mgr.value)>>)
    /\ UNCHANGED tasks

\* .stop() on the manager of the chain
ThenStop ==
    /\ depth < MaxCalls
    /\ Ready
    /\ promise.state = "none"
    /\ AsyncCalled("stop", << >>, PipeManagerImpl_stop(mgr),
                   <<Event("ran", "stop", mgr.value)>>)
    /\ UNCHANGED tasks

\* .toPromise() on the manager of the chain
ThenToPromise ==
    /\ Ready
    /\ promise.state = "none"
    /\ promise' = PipeManagerImpl_toPromise(mgr)
    /\ events' = Append(events, Event("ran", "toPromise", mgr.value))
    /\ UNCHANGED <<managerVars, asyncValue, steps, asyncResult, ip, tasks>>
    /\ UNCHANGED <<pipeVars, branchVars>>

ManagerAsyncNext ==
    \/ \E operator \in ManagerAsyncFns : MapAsync(operator)
    \/ \E effect \in ManagerAsyncFns : TapAsync(effect)
    \/ Resolve
    \/ \E operator \in ManagerOperators : ThenMap(operator)
    \/ ThenStop
    \/ ThenToPromise

ManagerAsyncSpec == ManagerInit /\ [][ManagerAsyncNext]_vars

----------------------------------------------------------------------------
\* Properties

\* execute() has returned
Executed == pc \in {"executed", "done"}

\* what an iteration recorded of its operator's result
EntryStops(e) == ~e.threw /\ Truthy(Get(e.out, "stopped"))
EntryErrs(e) == ~e.threw /\ Truthy(Get(e.out, "error"))
EntryFails(e) == e.threw \/ EntryErrs(e)

\* map(f) for the pure functions f that neither stop nor fail
PureMaps == {Op("map", "inc", 0), Op("map", "dbl", 0)}

\* fn(...f2(f1(v))) for the maps fs = map(f1), ..., map(fn)
RECURSIVE Composed(_, _)
Composed(fs, v) ==
    IF fs = << >> THEN v ELSE Composed(Tail(fs), Call(Head(fs).fn, v).val)

\* C1: a pipe of pure, non-stopping, non-failing maps map(f1), ..., map(fn),
\* added in one or several pipe() calls, applies them in registration order,
\* each to the output of the one before: value() is fn(...f2(f1(v))).
C1_OrderPreservation ==
    (Executed /\ \A k \in DOMAIN operators : operators[k] \in PureMaps) =>
        /\ result.value = Composed(operators, context.value)
        /\ ~result.stopped
        /\ ~Truthy(result.error)
        /\ \A k \in DOMAIN trace :
              /\ trace[k].op = operators[k]
              /\ trace[k].input = Composed(SubSeq(operators, 1, k - 1), context.value)
        /\ (pc = "done" /\ method = "value") =>
              ret = [kind |-> "returned", val |-> Composed(operators, context.value)]

\* createPipe(5).pipe(map(x => x + 1), map(x => x * 2)).value() is 12, and
\* taking the maps in the other order would give 11.
C1_Witness ==
    /\ pc = "done" /\ method = "value"
    /\ context.value = Num(5)
    /\ operators = <<Op("map", "inc", 0), Op("map", "dbl", 0)>>
    /\ ret.val = Num(12)

\* C2: when operator k is the first whose result has stopped = true, the
\* value of the result of execute() is the input of operator k, whatever
\* operator k returned and whatever operators follow.
C2_StopFreezesValue ==
    Executed =>
        \A k \in DOMAIN trace :
            (EntryStops(trace[k]) /\ \A j \in 1..(k - 1) : ~EntryStops(trace[j])) =>
                /\ result.value = trace[k].input
                /\ result.stopped

\* map(x => stop(x + 1)) returns 6 for 5 and a map follows it: the value stays 5.
C2_Witness ==
    /\ Executed
    /\ context.value = Num(5)
    /\ operators = <<Op("map", "retStop", 0), Op("map", "inc", 0)>>
    /\ trace[1].out.value = Num(6)
    /\ result.value = Num(5)

\* C3: a value thrown inside an operator is caught by execute(): the context's
\* error becomes it (wrapped in an Error when it is not one) and stays set in
\* the result; the throw stops the pipe under "stop" and leaves stopped as it
\* was under "continue" and "retry".
C3_ErrorContainment ==
    Executed =>
        /\ \A k \in DOMAIN trace :
              trace[k].threw =>
                 /\ trace[k].error =
                       IF trace[k].out.t = "error" THEN trace[k].out
                       ELSE Err(String(trace[k].out))
                 /\ trace[k].stopped = (trace[k].stoppedBefore \/ config = "stop")
                 /\ Truthy(result.error)
                 /\ (\A j \in (k + 1)..Len(trace) : ~EntryFails(trace[j])) =>
                        result.error = trace[k].error
                 /\ config = "stop" => result.stopped
        /\ (config # "stop" /\ result.stopped) =>
              \E k \in DOMAIN trace : EntryStops(trace[k])

\* Under "continue", map(() => { throw "oops" }) leaves Error("oops") in the
\* result and the pipe running.
C3_Witness ==
    /\ Executed
    /\ config = "continue"
    /\ Len(trace) = 2
    /\ trace[1].op = Op("map", "throwStr", 0)
    /\ trace[1].threw
    /\ result.error = Err("oops")
    /\ ~result.stopped

\* the error a failing iteration hands to the context
FailureOf(e) == IF e.threw THEN ToError(e.out) ELSE e.out.error

\* C4 (as claimed): under "stop", after the first operator that fails (throws,
\* or returns a PipeResult with an error) the result of execute() is stopped,
\* its error is that first error and its value is the input of that operator.
C4_StopKeepsFirstFailure ==
    (Executed /\ config = "stop") =>
        \A k \in DOMAIN trace :
            (EntryFails(trace[k]) /\ \A j \in 1..(k - 1) : ~EntryFails(trace[j])) =>
                /\ result.stopped
                /\ result.error = FailureOf(trace[k])
                /\ result.value = trace[k].input

\* C5 (as claimed): once the running context is stopped, the operators of the
\* later iterations are not invoked: no side effect of theirs happens and no
\* counter of theirs advances.
C5_StoppedSkipsOperators ==
    Executed =>
        \A k \in DOMAIN trace :
            trace[k].stoppedBefore =>
                /\ ~trace[k].invoked
                /\ trace[k].seen = << >>
                /\ trace[k].counterAfter = trace[k].counterBefore

\* operators that throw
ThrowingOps == {Op("map", "throwBoom", 0), Op("map", "throwStr", 0)}

\* C6 (as claimed): createPipe(v).pipe(throwingOp, catchError(h)).value() is
\* what the handler h returns for v, the error is cleared and the pipe is not
\* stopped.
C6_CatchRecovery ==
    (/\ pc = "done" /\ method = "value"
     /\ Len(operators) = 2
     /\ operators[1] \in ThrowingOps
     /\ operators[2] = Op("catchError", "h", 0)) =>
        /\ ret.val = Call("h", context.value).val
        /\ ~Truthy(result.error)
        /\ ~result.stopped

\* seq without its k-th element
Without(seq, k) == SubSeq(seq, 1, k - 1) \o SubSeq(seq, k + 1, Len(seq))

\* the result of execute() of the pipe under construction with the operators ops
ResultOf(ops) ==
    ExecuteResult(execute(context, ops, config, [k \in DOMAIN ops |-> 0]))

\* C7 (as claimed): a filter whose predicate returns the plain boolean true
\* lets the value through without stopping: the pipe gives what the same pipe
\* without that filter gives.
C7_FilterPassesTrue ==
    Executed =>
        \A k \in DOMAIN trace :
            (/\ trace[k].op = Op("filter", "gt3", 0)
             /\ ~trace[k].stoppedBefore
             /\ Call("gt3", trace[k].input).val = Bool(TRUE)) =>
                /\ ~trace[k].stopped
                /\ result.value = ResultOf(Without(operators, k)).value
                /\ result.stopped = ResultOf(Without(operators, k)).stopped

\* what the predicate of the filter of iteration e answered, as a boolean
PredicateHolds(e) ==
    LET ans == Call(e.op.fn, e.input).val
    IN  Truthy(IF isPipeResult(ans) THEN ans.value ELSE ans)

\* C8 (as claimed): a filter whose predicate is false stops the pipe, and
\* value() of createPipe(v).pipe(filter(pred)) is then undefined.
C8_FilterFalseValueUndefined ==
    (/\ pc = "done" /\ method = "value"
     /\ Len(operators) = 1
     /\ operators[1].op = "filter"
     /\ ~PredicateHolds(trace[1])) =>
        /\ result.stopped
        /\ ret.val = Undefined

\* C8 (amended): a filter whose predicate is false stops the pipe without an
\* error and without changing the value, and value() of
\* createPipe(v).pipe(filter(pred)) then yields the unchanged value v.
C8_FilterFalseStops ==
    /\ Executed =>
          \A k \in DOMAIN trace :
              (/\ trace[k].op.op = "filter"
               /\ ~trace[k].stoppedBefore
               /\ ~PredicateHolds(trace[k])) =>
                  /\ trace[k].stopped
                  /\ trace[k].value = trace[k].input
                  /\ trace[k].error = trace[k].errorBefore
    /\ (/\ pc = "done" /\ method = "value"
        /\ Len(operators) = 1
        /\ operators[1].op = "filter"
        /\ ~PredicateHolds(trace[1])) =>
          /\ result.stopped
          /\ result.error = Undefined
          /\ result.value = context.value
          /\ ret = [kind |-> "returned", val |-> context.value]

\* createPipe(1).pipe(filter(x => x > 3)).value() is 1 and the pipe is stopped.
C8_Witness ==
    /\ pc = "done" /\ method = "value"
    /\ context.value = Num(1)
    /\ operators = <<Op("filter", "gt3", 0)>>
    /\ result.stopped
    /\ ret.val = Num(1)

\* C9: value() returns undefined when the result has an error and the policy
\* is "stop" and result.value otherwise, and never raises; toPromise() rejects
\* with result.error exactly when the result has an error and resolves with
\* result.value otherwise; subscribe() never raises the operator's error.
C9_TerminalAsymmetry ==
    pc = "done" =>
        /\ method = "value" =>
              ret = [kind |-> "returned",
                     val |-> IF result.error # Undefined /\ config = "stop"
                             THEN Undefined ELSE result.value]
        /\ method = "toPromise" =>
              ret = IF result.error # Undefined
                    THEN [kind |-> "rejected", val |-> result.error]
                    ELSE [kind |-> "resolved", val |-> result.value]
        /\ method = "subscribe" =>
              ~(ret.kind = "raised" /\ ret.val = result.error)

\* Under "continue" a failed pipe still gives its value from value(), while
\* under "stop" it gives undefined.
C9_Witness ==
    /\ pc = "done" /\ method = "value"
    /\ config = "continue"
    /\ result.error = Err("boom")
    /\ ret = [kind |-> "returned", val |-> Num(6)]

\* C10 (as claimed): subscribe calls either onError once and nothing else (the
\* result has an error), or onNext once and then onComplete once and never
\* onError (no error).
C10_SubscribeOneOutcome ==
    (pc = "done" /\ method = "subscribe") =>
        LET names == [k \in DOMAIN calls |-> calls[k].cb]
        IN  IF Truthy(result.error) THEN names = <<"onError">>
            ELSE names = <<"onNext", "onComplete">>

\* C11: under "continue", when operator k throws, the error is recorded, stopped
\* stays as it was (false for a running pipe), every later operator is still
\* invoked in registration order, operator k+1 receives the input of operator
\* k, and the error is still in the result of execute() unless a later
\* operator fails and replaces it.
C11_ContinueAfterThrow ==
    (Executed /\ config = "continue") =>
        /\ Len(trace) = Len(operators)
        /\ \A k \in DOMAIN trace :
              trace[k].threw =>
                 /\ trace[k].error = ToError(trace[k].out)
                 /\ trace[k].stopped = trace[k].stoppedBefore
                 /\ trace[k].value = trace[k].input
                 /\ \A j \in (k + 1)..Len(trace) :
                        trace[j].invoked /\ trace[j].op = operators[j]
                 /\ k < Len(trace) => trace[k + 1].input = trace[k].input
                 /\ Truthy(result.error)
                 /\ (\A j \in (k + 1)..Len(trace) : ~EntryFails(trace[j])) =>
                        result.error = trace[k].error
                 /\ (\A j \in DOMAIN trace : ~EntryStops(trace[j])) => ~result.stopped

\* Under "continue", createPipe(5).pipe(map(() => { throw new Error("boom") }),
\* tap(log)) logs 5, and the result is 5 with the error and not stopped.
C11_Witness ==
    /\ Executed
    /\ config = "continue"
    /\ context.value = Num(5)
    /\ operators = <<Op("map", "throwBoom", 0), Op("tap", "log", 0)>>
    /\ effects = <<Num(5)>>
    /\ result = [value |-> Num(5), stopped |-> FALSE, error |-> Err("boom"),
                 metadata |-> << >>]

\* C12 (as claimed): under "retry", an operator that throws is attempted again,
\* and when every attempt fails (as with an operator that always throws) the
\* execution falls back to the stop semantics: the context is stopped after
\* that operator and the result of execute() is stopped with the error.
C12_RetryFallsBackToStop ==
    (Executed /\ config = "retry") =>
        \A k \in DOMAIN trace :
            (trace[k].op \in ThrowingOps /\ trace[k].threw) =>
                /\ trace[k].stopped
                /\ result.stopped
                /\ Truthy(result.error)

\* the result of execute() of a Pipe object whose operator instances have
\* never been invoked
FreshResult(p) ==
    ExecuteResult(execute(p.context, p.operators, p.config,
                          [k \in DOMAIN p.operators |-> 0]))

\* C13 (as claimed): p.pipe(op1, ..., opk) returns a new Pipe with p's operators
\* followed by op1..opk and leaves p as it was, so that pipes branched from
\* the same p execute independently of each other and of p: the first
\* execution of a pipe gives what it gives when no other pipe has executed.
C13_BranchIndependence ==
    /\ \A i \in DOMAIN pipes :
          births[i].from # 0 =>
             /\ pipes[i].operators = births[i].before.operators \o births[i].args
             /\ pipes[births[i].from] = births[i].before
    /\ \A r \in DOMAIN runs :
          (\A q \in 1..(r - 1) : runs[q].pipe # runs[r].pipe) =>
              runs[r].result = FreshResult(pipes[runs[r].pipe])

\* pipes without take and skip
Stateless(ops) == \A k \in DOMAIN ops : ops[k].op \notin {"take", "skip"}

\* C14: for a pipe built only from stateless operators (no take, no skip),
\* every subscribe() on the same Pipe object has the same outcome: the same
\* callbacks are called with the same value or error, the result of the inner
\* execute() has the same value, stopped, error and metadata, and no
\* execution changes the Pipe object.
C14_IdempotentResubscription ==
    /\ \A a \in DOMAIN runs : pipes[runs[a].pipe] = runs[a].before
    /\ \A a \in DOMAIN runs, b \in DOMAIN runs :
          (runs[a].pipe = runs[b].pipe /\ Stateless(pipes[runs[a].pipe].operators)) =>
              /\ runs[a].result = runs[b].result
              /\ runs[a].calls = runs[b].calls
              /\ runs[a].effects = runs[b].effects
              /\ runs[a].result = FreshResult(pipes[runs[a].pipe])

\* createPipe(3).pipe(map(x => x + 1)).pipe(filter(x => pipeResult(x > 3))),
\* subscribed twice, calls onNext(4) and onComplete() both times.
C14_Witness ==
    /\ Len(runs) = 2
    /\ runs[1].pipe = runs[2].pipe
    /\ Len(pipes[runs[1].pipe].operators) = MaxOps
    /\ pipes[runs[1].pipe].operators[1].op = "map"
    /\ pipes[runs[1].pipe].operators[1].fn = "inc"
    /\ pipes[runs[1].pipe].operators[2].op = "filter"
    /\ runs[2].result.value = Num(4)
    /\ runs[2].calls = <<[cb |-> "onNext", arg |-> Num(4)],
                         [cb |-> "onComplete", arg |-> Undefined]>>

\* { ...m, ...md1, ...md2, ... } for the metadata md of the results that the
\* iterations es got while the context was not yet stopped
RECURSIVE MergedMetadata(_, _)
MergedMetadata(es, m) ==
    IF es = << >> THEN m
    ELSE LET e == Head(es)
         IN  MergedMetadata(Tail(es),
                            IF ~e.stoppedBefore /\ ~e.threw /\ Truthy(Get(e.out, "metadata"))
                            THEN Merge(m, e.out.metadata.m) ELSE m)

\* C15 (as claimed): the metadata of the result of execute() is the shallow
\* merge, in operator order, of the metadata of every PipeResult returned by an
\* operator that was invoked while the context was not already stopped.
C15_MetadataMerge ==
    Executed => result.metadata = MergedMetadata(trace, context.metadata)

\* C16 (as claimed): with an asynchronous operator first in the chain and pure
\* maps after it, toPromise() waits for the operator's promise and resolves
\* with what the promise resolves with, passed through the maps:
\* await createPipe(5).pipe(asyncOperator).toPromise() is 10.
C16_AsyncOperatorAwaited ==
    (/\ pc = "done" /\ method = "toPromise"
     /\ Len(operators) >= 1
     /\ operators[1] = Op("custom", "asyncOperator", 0)
     /\ \A k \in 2..Len(operators) : operators[k] \in PureMaps) =>
        ret = [kind |-> "resolved",
               val |-> Composed(Tail(operators),
                                Call("asyncOperator", context.value).val.settled)]

\* a manager that is neither stopped nor errored
Running(ctx) == ~ctx.stopped /\ ctx.error = Undefined

\* the log entry of the call fn(arg)
Entry(fn, arg) == [fn |-> fn, arg |-> arg, err |-> Undefined]

\* C17: catch(handler) on a manager with an error calls handler(error, value)
\* once and returns a manager with the handler's result as value, no error and
\* stopped = false, or, when the handler throws, a manager stopped with the new
\* error and the value unchanged; on a manager without an error it does not
\* call the handler and returns the same value, stopped, error and metadata.
C17_Catch ==
    last.method = "catch" =>
        LET handler == last.args[1]
            c == CallHandler(handler, recv.error, recv.value)
        IN  IF recv.error # Undefined
            THEN /\ last.log = <<[fn |-> handler, arg |-> recv.value, err |-> recv.error]>>
                 /\ IF c.threw
                    THEN /\ mgr.stopped
                         /\ mgr.error = ToError(c.val)
                         /\ mgr.value = recv.value
                    ELSE /\ mgr.value = c.val
                         /\ mgr.error = Undefined
                         /\ ~mgr.stopped
            ELSE /\ last.log = << >>
                 /\ mgr = recv

\* createPipe(5).map(() => { throw new Error("boom") })
\*              .catch((e, v) => v + e.message.length) has value 9 and runs.
C17_Witness ==
    /\ last.method = "catch"
    /\ last.args = <<"msgLen">>
    /\ origin = "createPipe"
    /\ recv = Context(Num(5), TRUE, Err("boom"), Undefined)
    /\ mgr = Context(Num(9), FALSE, Undefined, Undefined)

\* C18 (as claimed): retry(n), n >= 1, on a manager that a failing step of the
\* chain left stopped with an error runs that step again, at least once and
\* at most n times, and returns the outcome of the re-run; the steps here fail
\* every time they run, so the outcome is the error again.
C18_RetryRerunsFailingStep ==
    (/\ last.method = "retry"
     /\ origin = "createPipe"
     /\ recv.stopped /\ recv.error # Undefined
     /\ last.args[1] >= 1) =>
        /\ Len(last.log) \in 1..last.args[1]
        /\ mgr.stopped
        /\ mgr.error = recv.error

\* cases[k].condition(v) returns a truthy value
Holds(cases, k, v) ==
    LET t == Test(cases[k].condition, v)
    IN  ~t.threw /\ Truthy(t.val)

\* the first case whose condition holds for v; 0 when there is none
FirstMatch(cases, v) ==
    IF \E k \in DOMAIN cases : Holds(cases, k, v)
    THEN CHOOSE k \in DOMAIN cases :
            Holds(cases, k, v) /\ \A j \in 1..(k - 1) : ~Holds(cases, j, v)
    ELSE 0

\* C19: switch(cases, default) on a running manager, when the conditions it
\* evaluates do not throw, evaluates the conditions in array order up to the
\* first that holds and applies that case's operator and nothing else; when
\* no condition holds it applies the default operator if there is one, and
\* otherwise returns a manager stopped with the error "No matching case found
\* in switch statement" and the value unchanged.
C19_SwitchFirstMatch ==
    (last.method = "switch" /\ Running(recv)) =>
        LET cases == last.args[1]
            defaultOperator == last.args[2]
            v == recv.value
            k == FirstMatch(cases, v)
            n == IF k = 0 THEN Len(cases) ELSE k
            tests == [j \in 1..n |-> Entry(cases[j].condition.fn, v)]
            applied == IF k # 0 THEN cases[k].operator ELSE defaultOperator
        IN  (\A j \in 1..n : ~Test(cases[j].condition, v).threw) =>
                IF applied # "none"
                THEN /\ last.log = Append(tests, Entry(applied, v))
                     /\ ~Call(applied, v).threw =>
                           /\ mgr.value = Call(applied, v).val
                           /\ ~mgr.stopped
                           /\ mgr.error = Undefined
                ELSE /\ last.log = tests
                     /\ mgr.stopped
                     /\ mgr.error = Err("No matching case found in switch statement")
                     /\ mgr.value = v

\* createPipe(5).switch([{ x > 3: x + 1 }, { x > 0: x * 2 }]) is 6: the second
\* condition, which also holds, is not evaluated.
C19_Witness ==
    /\ last.method = "switch"
    /\ recv = pipe1(Num(5))
    /\ last.args[1] = <<[condition |-> Cond("gt3"), operator |-> "inc"],
                        [condition |-> Cond("gt0"), operator |-> "dbl"]>>
    /\ last.log = <<Entry("gt3", Num(5)), Entry("inc", Num(5))>>
    /\ mgr.value = Num(6)

\* C20: when(cond, op) on a running manager, cond not throwing, returns a
\* running manager with value op(value) when cond(value) holds, and otherwise
\* does not call op and returns the receiver's value, stopped, error and
\* metadata; unless(cond, op) returns for every manager what when(not cond, op)
\* returns, so on a running manager it applies op exactly when cond(value)
\* does not hold.
C20_WhenUnless ==
    /\ last.method \in {"when", "unless"} =>
          LET t == Call(last.args[1], recv.value)
              c == Call(last.args[2], recv.value)
              applies == IF last.method = "when" THEN Truthy(t.val) ELSE ~Truthy(t.val)
          IN  (Running(recv) /\ ~t.threw) =>
                  IF applies
                  THEN /\ last.log = <<Entry(last.args[1], recv.value),
                                       Entry(last.args[2], recv.value)>>
                       /\ ~c.threw => /\ mgr.value = c.val
                                      /\ ~mgr.stopped
                                      /\ mgr.error = Undefined
                  ELSE /\ last.log = <<Entry(last.args[1], recv.value)>>
                       /\ mgr = recv
    /\ last.method = "unless" =>
          LET w == PipeManagerImpl_when(recv, Not(Cond(last.args[1])), last.args[2])
          IN  mgr = w.context /\ last.log = w.log

\* new PipeManagerImpl({ value: 5, stopped: false, metadata: { a: 1 } })
\*     .unless(x => x > 3, x => x + 1) keeps value 5 and the metadata.
C20_Witness ==
    /\ last.method = "unless"
    /\ last.args = <<"gt3", "inc">>
    /\ recv = Context(Num(5), FALSE, Undefined, Meta([k \in {"a"} |-> Num(1)]))
    /\ mgr = recv
    /\ last.log = <<Entry("gt3", Num(5))>>

\* The iterations of the executions so far that invoked the operator instance
\* id, as <<run, position>>, and the number of those before iteration k of
\* run r.
InvocationsOf(id) ==
    {<<r, k>> \in (1..MaxRuns + 1) \X (1..MaxOps + 1) :
        /\ r \in DOMAIN runs
        /\ k \in DOMAIN runs[r].trace
        /\ runs[r].trace[k].invoked
        /\ runs[r].trace[k].op.id = id}

InvocationIndex(id, r, k) ==
    1 + Cardinality({x \in InvocationsOf(id) :
                        x[1] < r \/ (x[1] = r /\ x[2] < k)})

\* C21: take and skip count the invocations of one operator instance, over
\* all executions and all pipes that hold the instance: the i-th invocation
\* of a take(n) instance returns a result that is not stopped iff i <= n, and
\* otherwise a stopped result with the value it was given; the i-th
\* invocation of a skip(n) instance returns a stopped result iff i <= n; the
\* outcome depends on no other instance's invocations.
C21_TakeSkipCountInvocations ==
    \A r \in DOMAIN runs : \A k \in DOMAIN runs[r].trace :
        LET e == runs[r].trace[k]
            i == InvocationIndex(e.op.id, r, k)
        IN  /\ (e.op.op = "take" /\ e.invoked) =>
                /\ ~e.threw
                /\ ~Truthy(Get(e.out, "stopped")) <=> (i <= e.op.count)
                /\ e.out.value = e.input
            /\ (e.op.op = "skip" /\ e.invoked) =>
                /\ ~e.threw
                /\ Truthy(Get(e.out, "stopped")) <=> (i <= e.op.count)
                /\ e.out.value = e.input

\* A take(1) instance shared by two pipes, one ending with a skip(1) of its
\* own: the first execution passes take and stops at skip's first invocation,
\* the execution of the other pipe is take's second invocation and stops.
C21_Witness ==
    /\ Len(runs) = 2
    /\ runs[1].pipe # runs[2].pipe
    /\ Len(runs[1].trace) = 2
    /\ runs[1].trace[1].op.op = "take"
    /\ runs[1].trace[2].op.op = "skip"
    /\ ~Truthy(Get(runs[1].trace[1].out, "stopped"))
    /\ Truthy(Get(runs[1].trace[2].out, "stopped"))
    /\ Len(runs[2].trace) >= 1
    /\ runs[2].trace[1].op.id = runs[1].trace[1].op.id
    /\ Truthy(Get(runs[2].trace[1].out, "stopped"))
    /\ runs[2].trace[1].out.value = Num(3)

\* C24 (as claimed): map, tap, filter, when, unless and switch on a manager
\* whose context is stopped invoke none of the callbacks they are given and
\* return a manager whose whole context is the receiver's: the same value,
\* stopped, error and metadata.
C24_StoppedBypassKeepsContext ==
    (/\ last.method \in {"map", "tap", "filter", "when", "unless", "switch"}
     /\ recv.stopped) =>
        /\ last.log = << >>
        /\ mgr.value = recv.value
        /\ mgr.stopped = recv.stopped
        /\ mgr.error = recv.error
        /\ mgr.metadata = recv.metadata

\* C25: no call changes the context of an object that exists.  Every
\* PipeManagerImpl method leaves the receiver's value, stopped, error and
\* metadata as they were before the call, whatever the manager it returns
\* holds; and an execution of a Pipe leaves the stored context of every Pipe
\* (what getContext() reads) as it was, also when operators return metadata
\* or errors or throw.
C25_CopyOnWrite ==
    [][/\ (depth' = depth + 1) => (recv' = mgr)
       /\ (Len(runs') = Len(runs) + 1) =>
              \A i \in DOMAIN pipes : pipes'[i].context = pipes[i].context]_vars

\* new PipeManagerImpl({ value: 5, stopped: false, metadata: { a: 1 } })
\* .map(x => x * 2) returns a manager with the value 10 and leaves the
\* receiver with 5.
C25_Witness ==
    /\ last.method = "map"
    /\ recv = Context(Num(5), FALSE, Undefined, Meta([k \in {"a"} |-> Num(1)]))
    /\ mgr.value = Num(10)

\* createPipe(3).pipe(map(x => metadata(x, { a: x }))).pipe(map(() => { throw
\* new Error("boom") })) has been executed: the result carries the metadata
\* and the error, the stored context of the pipe has neither.
C25_PipeWitness ==
    /\ Len(runs) >= 1
    /\ DOMAIN runs[1].result.metadata # {}
    /\ Truthy(runs[1].result.error)
    /\ DOMAIN pipes[runs[1].pipe].context.metadata = {}
    /\ pipes[runs[1].pipe].context.error = Undefined

\* C26: every manager reached from createPipe(v) by stop, resume, reset, map,
\* tap, filter, catch, retry, when, unless and switch calls, with callbacks
\* that may throw, has hasError => isStopped.  Each method keeps it: called
\* on any manager with hasError => isStopped, it returns one with it.
C26_ErrorImpliesStopped ==
    /\ origin = "createPipe" => (hasError(mgr) => isStopped(mgr))
    /\ (depth >= 1 /\ (hasError(recv) => isStopped(recv))) =>
           (hasError(mgr) => isStopped(mgr))

\* createPipe(1).map(() => { throw new Error("boom") }).stop(): the manager
\* that map returned has the error and is stopped, and so has the one that
\* stop() returns.
C26_Witness ==
    /\ origin = "createPipe"
    /\ depth = 2
    /\ last.method = "stop"
    /\ hasError(recv) /\ isStopped(recv)
    /\ hasError(mgr) /\ isStopped(mgr)
    /\ mgr.error = Err("boom")

\* C29: retry(n) invokes no callback.  For n >= 1 on a manager that is
\* stopped with an error it returns the context that resume() returns: the
\* same value and metadata, stopped false, no error.  For n <= 0, and on a
\* manager that is not both stopped and errored, it returns the context of
\* the receiver.
C29_RetryIsResume ==
    last.method = "retry" =>
        /\ last.log = << >>
        /\ IF recv.stopped /\ Truthy(recv.error) /\ last.args[1] >= 1
           THEN /\ mgr = PipeManagerImpl_resume(recv).context
                /\ mgr = Context(recv.value, FALSE, Undefined, recv.metadata)
           ELSE mgr = recv

\* createPipe(1).filter(x => x > 3).retry(2): the manager stopped by filter
\* without an error stays stopped.
C29_Witness ==
    /\ origin = "createPipe"
    /\ depth = 2
    /\ last.method = "retry"
    /\ last.args[1] = 2
    /\ recv = Context(Num(1), TRUE, Undefined, Undefined)
    /\ mgr = recv

\* new PipeManagerImpl({ value: 1, stopped: true, error, metadata: { a: 1 } })
\* .retry(2) is running again, with the metadata.
C29_ResumedWitness ==
    /\ last.method = "retry"
    /\ last.args[1] = 2
    /\ recv.stopped /\ Truthy(recv.error) /\ recv.metadata # Undefined
    /\ ~mgr.stopped /\ mgr.error = Undefined /\ mgr.metadata = recv.metadata

\* C27: within one execute() the running stopped flag and the running error
\* only ever get set: once stopped is true after an operator it is true after
\* every later operator and in the result, and once an error is recorded
\* there is an error after every later operator and in the result.  This is
\* so for every chain, catchError and operators that return stopped: false or
\* error: undefined included, under every errorHandling policy.
C27_StoppedAndErrorMonotonic ==
    Executed =>
        \A k \in DOMAIN trace :
            /\ trace[k].stoppedBefore => trace[k].stopped
            /\ Truthy(trace[k].errorBefore) => Truthy(trace[k].error)
            /\ trace[k].stopped =>
                  /\ \A j \in k..Len(trace) : trace[j].stopped
                  /\ result.stopped
            /\ Truthy(trace[k].error) =>
                  /\ \A j \in k..Len(trace) : Truthy(trace[j].error)
                  /\ Truthy(result.error)

\* createPipe(v, { errorHandling: "continue" }).pipe(throwError("fail"),
\* catchError()): catchError is invoked with the error in the context and
\* returns { stopped: false, error: undefined }; the error stays.
C27_Witness ==
    /\ Executed
    /\ config = "continue"
    /\ Len(trace) = 2
    /\ trace[1].op.op = "throwError"
    /\ trace[2].op = Op("catchError", "none", 0)
    /\ ~trace[1].stopped
    /\ Truthy(trace[1].error)
    /\ trace[2].out.stopped = Bool(FALSE)
    /\ trace[2].out.error = Undefined
    /\ Truthy(result.error)

\* createPipe(v).pipe(filter(x => x > 3), catchError()) with v = 1: stopped
\* by filter, and still stopped after catchError.
C27_StoppedWitness ==
    /\ Executed
    /\ Len(trace) = 2
    /\ trace[1].op.op = "filter"
    /\ trace[1].stopped
    /\ trace[2].op.op = "catchError"
    /\ ~Truthy(Get(trace[2].out, "stopped"))
    /\ result.stopped

\* the results that the operators of the composed operator of iteration e
\* returned
PartResults(e) == ComposeRun(e.op.parts, e.input, e.counterBefore).results

\* C28 (as claimed): when some operator opk of compose(op1, ..., opn) returns
\* stopped = true, at any position k, the result that the composed operator
\* returns has stopped = true, and the pipe that runs the composed operator
\* is stopped as the pipe that runs op1..opn as separate steps is.
C28_ComposePropagatesStop ==
    (Executed /\ Len(trace) = 1 /\ trace[1].op.op = "compose") =>
        LET e == trace[1]
            parts == PartResults(e)
            separate == ExecuteResult(execute(context, e.op.parts, config,
                                              e.counterBefore))
        IN  (\E k \in DOMAIN parts :
                 ~parts[k].threw /\ Truthy(Get(parts[k].val, "stopped"))) =>
                /\ ~e.threw
                /\ Truthy(Get(e.out, "stopped"))
                /\ result.stopped
                /\ result.stopped = separate.stopped

\* the events of function k of step s: its call, and the settlement of the
\* promise it returned
CallsOf(s, k) ==
    {i \in DOMAIN events : events[i].kind \in {"called", "threw"}
                           /\ events[i].step = s /\ events[i].k = k}
SettlementsOf(s, k) ==
    {i \in DOMAIN events : events[i].kind \in {"fulfilled", "rejected"}
                           /\ events[i].step = s /\ events[i].k = k}
FulfilmentsOf(s, k) == {i \in SettlementsOf(s, k) : events[i].kind = "fulfilled"}

\* the value that step s is given: the value argument, or what step s - 1
\* returned, the array of the results in array order for an array of functions
ResultsOf(s) ==
    [k \in DOMAIN steps[s].fns |-> events[CHOOSE i \in SettlementsOf(s, k) : TRUE].val]
InputOf(s) ==
    IF s = 1 THEN asyncValue
    ELSE IF steps[s - 1].array THEN Arr(ResultsOf(s - 1))
    ELSE ResultsOf(s - 1)[1]

\* Every function of steps 1 .. s - 1 has been called and its promise was
\* fulfilled before event i; each call of step s got the result of step s - 1.
JoinedBefore(s, i) ==
    \A k \in DOMAIN steps[s - 1].fns : \E j \in FulfilmentsOf(s - 1, k) : j < i
StepOrder ==
    \A i \in DOMAIN events :
        events[i].kind \in {"called", "threw"} =>
            /\ events[i].arg = InputOf(events[i].step)
            /\ events[i].step > 1 => JoinedBefore(events[i].step, i)

\* C22 (as claimed): every function of an array step is called with the same
\* input, the result of the step before; the next step starts only after the
\* promises of all of them have settled; and it is given the array of their
\* results in array order, in whatever order they settled.
C22_ParallelStepAllStarted ==
    /\ StepOrder
    /\ \A s \in 1..ip : steps[s].array =>
          \A k \in DOMAIN steps[s].fns :
              \E i \in CallsOf(s, k) : events[i].arg = InputOf(s)

\* C22 (amended): the functions of an array step are called in array order
\* with the same input, the result of the step before, up to and including
\* the first one that throws when it is called; the functions after that one
\* are never called.  The next step starts only after the promises of all
\* the functions have been fulfilled, and it is given the array of their
\* results in array order, in whatever order they settled.
C22_ParallelStep ==
    /\ StepOrder
    /\ \A s \in 1..ip : steps[s].array =>
          \A k \in DOMAIN steps[s].fns :
              IF \E j \in 1..(k - 1) : StartFn(steps[s].fns[j], InputOf(s)).threw
              THEN CallsOf(s, k) = {}
              ELSE /\ Cardinality(CallsOf(s, k)) = 1
                   /\ \A i \in CallsOf(s, k) : events[i].arg = InputOf(s)
                   /\ \A j \in 1..(k - 1) : \A i \in CallsOf(s, k), h \in CallsOf(s, j) : h < i

\* pipeAsync(1, [async x => ({ a: x }), async x => ({ b: x })],
\* async x => ({ a: x })): the second promise of the array is fulfilled
\* before the first, and the last step is called with [{ a: 1 }, { b: 1 }].
C22_Witness ==
    /\ Len(steps) = 2
    /\ steps[1] = [array |-> TRUE, fns |-> <<"tagA", "tagB">>]
    /\ ip = 2
    /\ \E i \in FulfilmentsOf(1, 2), j \in FulfilmentsOf(1, 1) : i < j
    /\ \E i \in CallsOf(2, 1) :
          events[i].arg = Arr(<<Tag("a", Num(1)), Tag("b", Num(1))>>)

\* the failures: a function threw when it was called, or its promise was
\* rejected
Failures == {i \in DOMAIN events : events[i].kind \in {"threw", "rejected"}}
FirstFailure == CHOOSE i \in Failures : \A j \in Failures : i <= j

\* C30 (as claimed): when a sequential step or any function of an array step
\* throws or rejects, the promise that pipeAsync returned is rejected with
\* that error (it is never fulfilled, and once it is rejected it holds the
\* error of that function) and no later step is started, in whatever order
\* the other functions of the array complete.
C30_RejectsWithThatError ==
    \A i \in Failures :
        /\ promise.state # "fulfilled"
        /\ promise.state = "rejected" => promise.val = events[i].val
        /\ ip = events[i].step

\* after a failure the promise of pipeAsync is never fulfilled, holds the
\* error of the first failure once it is rejected, and no later step starts
FirstFailureReported ==
    /\ Failures # {} =>
          /\ promise.state # "fulfilled"
          /\ promise.state = "rejected" => promise.val = events[FirstFailure].val
          /\ ip = events[FirstFailure].step
          /\ \A i \in DOMAIN events : events[i].step <= ip
    /\ promise.state = "rejected" => Failures # {}
    /\ promise.state = "fulfilled" => ip = Len(steps) /\ Joined

\* C30 (amended): when a sequential step or a function of an array step
\* throws or rejects, the promise that pipeAsync returned is rejected, with
\* the error of the first failure (a function that throws when it is called
\* comes before every rejection of the step; among rejections the first to
\* happen), and no later step is started, in whatever order the other
\* functions of the array complete or fail.
C30_RejectsWithFirstFailure ==
    /\ []FirstFailureReported
    /\ (Failures # {}) ~> (promise.state = "rejected")

\* pipeAsync(1, [async x => ({ a: x }), async () => { throw new Error("A") }],
\* async x => ({ b: x })): the second promise is rejected first, the first is
\* fulfilled after it; the promise of pipeAsync is rejected with A and the
\* last step is not called.
C30_Witness ==
    /\ Len(steps) = 2
    /\ steps[1] = [array |-> TRUE, fns |-> <<"tagA", "rejectA">>]
    /\ \E i \in SettlementsOf(1, 2), j \in FulfilmentsOf(1, 1) : i < j
    /\ promise = [state |-> "rejected", val |-> Err("A")]
    /\ ip = 1
    /\ CallsOf(2, 1) = {}

\* the synchronous function that returns what the promise of fn is fulfilled
\* with, or throws what it is rejected with
SyncOf(fn) ==
    CASE fn = "incAsync" -> "inc"
      [] fn = "rejectBoom" -> "throwBoom"
      [] fn = "rejectStr" -> "throwStr"
      [] fn = "throwBoom" -> "throwBoom"

\* C23: mapAsync and tapAsync follow the contract of map and tap, the awaited
\* call being the only suspension point.  On a running manager mapAsync(f)
\* calls f and resolves with a manager that has the value f's promise was
\* fulfilled with, stopped = false and no error, or, when f rejects, the
\* value unchanged, stopped = true and the error; on a stopped or errored
\* manager f is not called; tapAsync likewise gives what tap gives.  No
\* method chained after the call runs before the promise of f has settled.
\* (await createPipe(1).mapAsync(async x => x + 1)).toPromise() gives 2.
C23_AsyncOperators ==
    /\ last.method \in {"mapAsync", "tapAsync"} =>
          LET f == last.args[1]
              c == StartFn(f, recv.value)
          IN  /\ last.log = IF Running(recv) THEN <<Entry(f, recv.value)>> ELSE << >>
              /\ last.method = "mapAsync" =>
                    /\ mgr = PipeManagerImpl_map(recv, SyncOf(f)).context
                    /\ (Running(recv) /\ c.state = "fulfilled") =>
                          mgr.value = c.val /\ ~mgr.stopped /\ mgr.error = Undefined
                    /\ (Running(recv) /\ c.state # "fulfilled") =>
                          mgr.value = recv.value /\ mgr.stopped /\ mgr.error = ToError(c.val)
                    /\ ~Running(recv) =>
                          /\ mgr.value = recv.value
                          /\ mgr.stopped = recv.stopped
                          /\ mgr.error = recv.error
              /\ last.method = "tapAsync" =>
                    /\ mgr = PipeManagerImpl_tap(recv, SyncOf(f)).context
                    /\ (Running(recv) /\ c.state = "fulfilled") => mgr = recv
                    /\ ~Running(recv) => mgr = recv
    /\ \A i \in DOMAIN events :
          events[i].kind \in {"ran", "called", "threw"} =>
              \A j \in 1..(i - 1) :
                  events[j].kind = "called" =>
                      \E k \in (j + 1)..(i - 1) : events[k].kind \in {"fulfilled", "rejected"}
    /\ (/\ origin = "createPipe"
        /\ depth = 1
        /\ last.method = "mapAsync"
        /\ last.args = <<"incAsync">>
        /\ promise.state # "none") =>
            promise = [state |-> "fulfilled", val |-> Plus(recv.value, 1)]

\* (await createPipe(1).mapAsync(async x => x + 1)).toPromise(): f was called
\* with 1, its promise was fulfilled, then toPromise() ran and gave 2.
C23_Witness ==
    /\ origin = "createPipe"
    /\ depth = 1
    /\ last.method = "mapAsync"
    /\ recv = pipe1(Num(1))
    /\ mgr = Context(Num(2), FALSE, Undefined, Undefined)
    /\ promise = [state |-> "fulfilled", val |-> Num(2)]
    /\ events = <<Event("called", "incAsync", Num(1)),
                  Event("fulfilled", "incAsync", Num(1)),
                  Event("ran", "toPromise", Num(2))>>

\* createPipe(5).mapAsync(() => Promise.reject("oops")), then .map(x => x + 1)
\* on the manager it resolves with: stopped with Error("oops"), map bypassed.
C23_RejectedWitness ==
    /\ origin = "createPipe"
    /\ depth = 2
    /\ last.method = "map"
    /\ recv = Context(Num(5), TRUE, Err("oops"), Undefined)
    /\ last.log = << >>
    /\ Len(events) = 3
    /\ events[2].kind = "rejected"

====
